---- MODULE Spec2Model ----
(***************************************************************************)
(* goProxy: rule-based forward proxy.  Model of the decision engine and    *)
(* its decision caches (handler/proxy_decision.go), the request dispatcher *)
(* and the ruleset swap (ProxyHandler in main.go), the supervisor's reload *)
(* and listener restart (main.go), the configuration manager               *)
(* (config/manager.go) and the external rule fetch (config/cache.go).      *)
(***************************************************************************)
EXTENDS Integers, Sequences, FiniteSets, TLC

\* ------------------------------------------------------------------------
\* Bounds
\* ------------------------------------------------------------------------
\* number of request-handler goroutines that can be in flight at once
NReq == 1
\* number of reload triggers (SIGHUP, tray, ticker) the supervisor handles
MaxReloads == 2
\* number of reloads the rule loader handles after the initial load
MaxLoads == 2
\* number of rules of a ruleset handed to the rule evaluation
MaxRules == 2

\* ------------------------------------------------------------------------
\* The requests of the universe: r.URL.String(), r.URL.Hostname(), CONNECT
\* ------------------------------------------------------------------------
Requests ==
  << [url |-> "http://a.test/x", host |-> "a.test", connect |-> FALSE],
     [url |-> "http://a.test/y", host |-> "a.test", connect |-> FALSE],
     [url |-> "//b.test:443",    host |-> "b.test", connect |-> TRUE] >>

ReqIds == 1..Len(Requests)
HostNames == {Requests[k].host : k \in ReqIds}
URLNames == {Requests[k].url : k \in ReqIds}

\* net.ParseIP(host) succeeds: none of the hosts of the universe is a literal
IsIPLiteral(h) == h \in {"10.0.0.9"}

\* what the resolver answers for a name when it is reachable
DnsAnswer(h) ==
  CASE h = "a.test" -> {"10.0.0.1"}
    [] h = "b.test" -> {"1.1.1.1"}
    [] OTHER -> {}

\* glob.Compile(p) succeeds
GlobCompiles(p) == p # "["

\* gobwas/glob: the strings of the universe a compiled pattern matches
GlobSem(p) ==
  CASE p = "http://a.test/x*" -> {"http://a.test/x"}
    [] p = "*.test" -> {"a.test", "b.test"}
    [] p = "a.*" -> {"a.test"}
    [] p = "test" -> {"test"}
    [] p = "a.test" -> {"a.test"}
    [] p = "b.test" -> {"b.test"}
    [] p = "*b.test*" -> {"b.test", "//b.test:443"}
    [] OTHER -> {}

\* net.ParseCIDR(text) succeeds
IsCIDR(t) == t \in {"10.0.0.0/8"}

\* ipNet.Contains(ip) for the networks of the universe
CIDRContains(t, ip) == t = "10.0.0.0/8" /\ ip \in {"10.0.0.1", "10.0.0.9"}

\* GetCIDRNet accepts a bare address and promotes it to /32
IsBareIP(t) == t \in {"1.1.1.1"}

\* ------------------------------------------------------------------------
\* The rulesets the configuration file can hold (ProxyConfig after load)
\* ------------------------------------------------------------------------
Rule(name, proxy, not, urls, hosts, ips) ==
  [Name |-> name, Proxy |-> proxy, Not |-> not,
   parsedURLs |-> urls, parsedHosts |-> hosts, parsedIps |-> ips]

\* descriptor of a key that is not in the Proxies map
NoProxy == "<absent>"

Configs ==
  << [ListenAddr |-> ":8080", AutoReloadHours |-> 0, DefaultProxy |-> "direct",
      Proxies |-> [k \in {"direct", "block", "up"} |->
                     CASE k = "direct" -> ""
                       [] k = "block" -> "#"
                       [] OTHER -> "http://up:3128"],
      Rules |-> << Rule("x", "block", FALSE, <<"http://a.test/x*">>, <<>>, <<>>),
                   Rule("lan", "up", FALSE, <<>>, <<>>, <<"10.0.0.0/8">>) >>],
     [ListenAddr |-> ":8080", AutoReloadHours |-> 1, DefaultProxy |-> "missing",
      Proxies |-> [k \in {"direct", "block"} |->
                     CASE k = "direct" -> ""
                       [] OTHER -> "#"],
      Rules |-> << Rule("x", "direct", FALSE, <<"http://a.test/x*">>, <<>>, <<>>),
                   Rule("", "ghost", TRUE, <<>>, <<"a.test">>, <<>>) >>],
     [ListenAddr |-> ":9090", AutoReloadHours |-> 1, DefaultProxy |-> "block",
      Proxies |-> [k \in {"direct", "block", "up"} |->
                     CASE k = "direct" -> ""
                       [] k = "block" -> "#"
                       [] OTHER -> "socks5://s:1080"],
      Rules |-> << Rule("h", "up", FALSE, <<>>, <<"a.*", "test">>, <<>>) >>] >>

CfgIds == 1..Len(Configs)
Addrs == {Configs[c].ListenAddr : c \in CfgIds}

\* config.Proxies[key] with the comma-ok idiom
ProxyExists(c, key) == key \in DOMAIN Configs[c].Proxies
ProxyLookup(c, key) == IF ProxyExists(c, key) THEN Configs[c].Proxies[key] ELSE NoProxy

RECURSIVE Flatten(_)
Flatten(ss) == IF ss = <<>> THEN <<>> ELSE Head(ss) \o Flatten(Tail(ss))

SeqRange(s) == {s[k] : k \in 1..Len(s)}

GetAllHosts(c) == Flatten([k \in 1..Len(Configs[c].Rules) |-> Configs[c].Rules[k].parsedHosts])
GetAllURLs(c) == Flatten([k \in 1..Len(Configs[c].Rules) |-> Configs[c].Rules[k].parsedURLs])
GetAllIps(c) == Flatten([k \in 1..Len(Configs[c].Rules) |-> Configs[c].Rules[k].parsedIps])

\* variant: only the host patterns are compiled, the url patterns are skipped
PrecompileGlobsHostsOnly(c) == {p \in SeqRange(GetAllHosts(c)) : GlobCompiles(p)}

\* CacheManager.PrecompilePatterns: the maps are rebuilt from the arguments
PrecompileGlobs(c) == {p \in SeqRange(GetAllHosts(c)) \cup SeqRange(GetAllURLs(c)) : GlobCompiles(p)}
PrecompileCIDRs(c) == {t \in SeqRange(GetAllIps(c)) : IsCIDR(t)}

\* ------------------------------------------------------------------------
\* Decision engine (pure part)
\* ------------------------------------------------------------------------
Result(proxy, name, mt) == [Proxy |-> proxy, RuleName |-> name, MatchType |-> mt]
NoResult == Result("<none>", "<none>", "<none>")

\* ProxyDecision.matchesGlob: literal equality first, then the compiled glob
matchesGlob(pattern, s) ==
  \/ pattern = s
  \/ GlobCompiles(pattern) /\ s \in GlobSem(pattern)

\* ProxyDecision.matchesURLPattern
matchesURLPattern(pattern, url) == GlobCompiles(pattern) /\ url \in GlobSem(pattern)

\* CacheManager.ResolveHost against the DNS cache dc and the resolver state up:
\* ok says whether it returned addresses, dc is the cache afterwards
ResolveHost(h, dc, up) ==
  IF h \in dc THEN [ok |-> TRUE, ips |-> DnsAnswer(h), dc |-> dc]
  ELSE IF up /\ DnsAnswer(h) # {} THEN [ok |-> TRUE, ips |-> DnsAnswer(h), dc |-> dc \cup {h}]
  ELSE [ok |-> FALSE, ips |-> {}, dc |-> dc]

\* CacheManager.GetCIDRNet: memoised, a bare address is promoted to a host mask
GetCIDRNetOk(t) == IsCIDR(t) \/ IsBareIP(t)
NetContains(t, ip) == IF IsBareIP(t) THEN t = ip ELSE CIDRContains(t, ip)

\* the loop over ipRules of evaluateRules, from index j on
RECURSIVE IpRulesFrom(_, _, _, _, _, _)
IpRulesFrom(ipRules, j, tips, dc, cc, up) ==
  IF j > Len(ipRules) THEN [m |-> FALSE, dc |-> dc, cc |-> cc]
  ELSE LET t == ipRules[j] IN
    IF GetCIDRNetOk(t)
    THEN IF \E ip \in tips : NetContains(t, ip)
         THEN [m |-> TRUE, dc |-> dc, cc |-> cc \cup {t}]
         ELSE IpRulesFrom(ipRules, j + 1, tips, dc, cc \cup {t}, up)
    ELSE LET rr == ResolveHost(t, dc, up) IN
         IF rr.ok /\ rr.ips \cap tips # {}
         THEN [m |-> TRUE, dc |-> rr.dc, cc |-> cc]
         ELSE IpRulesFrom(ipRules, j + 1, tips, rr.dc, cc, up)

\* variant: a target that cannot be resolved counts as matched
IpCategoryFailMatches(ipRules, host, dc, cc, up) ==
  LET tr == IF IsIPLiteral(host) THEN [ok |-> TRUE, ips |-> {host}, dc |-> dc]
            ELSE ResolveHost(host, dc, up) IN
  IF tr.ips = {} THEN [m |-> TRUE, dc |-> tr.dc, cc |-> cc]
  ELSE IpRulesFrom(ipRules, 1, tr.ips, tr.dc, cc, up)

\* the ip category of one rule: resolve the target, then walk the ip rules
IpCategory(ipRules, host, dc, cc, up) ==
  LET tr == IF IsIPLiteral(host) THEN [ok |-> TRUE, ips |-> {host}, dc |-> dc]
            ELSE ResolveHost(host, dc, up) IN
  IF tr.ips = {} THEN [m |-> FALSE, dc |-> tr.dc, cc |-> cc]
  ELSE IpRulesFrom(ipRules, 1, tr.ips, tr.dc, cc, up)

\* variant: the negation is applied to the url and host categories only
RuleEvalNegatesNamesOnly(rule, host, fullURL, dc, cc, up) ==
  LET urlM == \E j \in 1..Len(rule.parsedURLs) : matchesURLPattern(rule.parsedURLs[j], fullURL)
      hostM == ~urlM /\ \E j \in 1..Len(rule.parsedHosts) : matchesGlob(rule.parsedHosts[j], host)
      ipc == IF ~urlM /\ ~hostM /\ Len(rule.parsedIps) > 0
             THEN IpCategory(rule.parsedIps, host, dc, cc, up)
             ELSE [m |-> FALSE, dc |-> dc, cc |-> cc]
      matched == urlM \/ hostM \/ ipc.m
  IN [fires |-> IF rule.Not THEN ~(urlM \/ hostM) ELSE matched,
      matchType |-> IF urlM THEN "url" ELSE IF hostM THEN "host" ELSE IF ipc.m THEN "ip" ELSE "",
      ruleName |-> IF rule.Name = "" THEN "unnamed rule" ELSE rule.Name,
      dc |-> ipc.dc, cc |-> ipc.cc]

\* variant: a rule without any pattern is skipped whatever its negation
RuleEvalSkipsEmpty(rule, host, fullURL, dc, cc, up) ==
  LET urlM == \E j \in 1..Len(rule.parsedURLs) : matchesURLPattern(rule.parsedURLs[j], fullURL)
      hostM == ~urlM /\ \E j \in 1..Len(rule.parsedHosts) : matchesGlob(rule.parsedHosts[j], host)
      ipc == IF ~urlM /\ ~hostM /\ Len(rule.parsedIps) > 0
             THEN IpCategory(rule.parsedIps, host, dc, cc, up)
             ELSE [m |-> FALSE, dc |-> dc, cc |-> cc]
      matched == urlM \/ hostM \/ ipc.m
      empty == Len(rule.parsedURLs) + Len(rule.parsedHosts) + Len(rule.parsedIps) = 0
  IN [fires |-> IF rule.Not /\ ~empty THEN ~matched ELSE matched,
      matchType |-> IF urlM THEN "url" ELSE IF hostM THEN "host" ELSE IF ipc.m THEN "ip" ELSE "",
      ruleName |-> IF rule.Name = "" THEN "unnamed rule" ELSE rule.Name,
      dc |-> ipc.dc, cc |-> ipc.cc]

\* one iteration of the loop of evaluateRules: the categories in the order
\* urls, hosts, ips, then the negation; matchType stays "" when no category
\* matched
RuleEval(rule, host, fullURL, dc, cc, up) ==
  LET urlM == \E j \in 1..Len(rule.parsedURLs) : matchesURLPattern(rule.parsedURLs[j], fullURL)
      hostM == ~urlM /\ \E j \in 1..Len(rule.parsedHosts) : matchesGlob(rule.parsedHosts[j], host)
      ipc == IF ~urlM /\ ~hostM /\ Len(rule.parsedIps) > 0
             THEN IpCategory(rule.parsedIps, host, dc, cc, up)
             ELSE [m |-> FALSE, dc |-> dc, cc |-> cc]
      matched == urlM \/ hostM \/ ipc.m
  IN [fires |-> IF rule.Not THEN ~matched ELSE matched,
      matchType |-> IF urlM THEN "url" ELSE IF hostM THEN "host" ELSE IF ipc.m THEN "ip" ELSE "",
      ruleName |-> IF rule.Name = "" THEN "unnamed rule" ELSE rule.Name,
      dc |-> ipc.dc, cc |-> ipc.cc]

\* variant: the loop does not stop at the first rule that fires; the last
\* firing rule decides
RECURSIVE EvalRulesLastWins(_, _, _, _, _, _, _, _)
EvalRulesLastWins(rules, def, k, host, fullURL, dc, cc, up) ==
  IF k > Len(rules)
  THEN [res |-> Result(def, "default", "default"), dc |-> dc, cc |-> cc]
  ELSE LET e == RuleEval(rules[k], host, fullURL, dc, cc, up)
           rest == EvalRulesLastWins(rules, def, k + 1, host, fullURL, e.dc, e.cc, up)
       IN IF e.fires /\ rest.res.MatchType = "default"
          THEN [res |-> Result(rules[k].Proxy, e.ruleName, e.matchType), dc |-> e.dc, cc |-> e.cc]
          ELSE rest

\* the loop of evaluateRules over rules from index k on, with the default
\* key def; returns the result and the DNS and CIDR caches as it leaves them
RECURSIVE EvalRulesFrom(_, _, _, _, _, _, _, _)
EvalRulesFrom(rules, def, k, host, fullURL, dc, cc, up) ==
  IF k > Len(rules)
  THEN [res |-> Result(def, "default", "default"), dc |-> dc, cc |-> cc]
  ELSE LET e == RuleEval(rules[k], host, fullURL, dc, cc, up)
       IN IF e.fires
          THEN [res |-> Result(rules[k].Proxy, e.ruleName, e.matchType), dc |-> e.dc, cc |-> e.cc]
          ELSE EvalRulesFrom(rules, def, k + 1, host, fullURL, e.dc, e.cc, up)

\* ProxyDecision.evaluateRules of ruleset c from rule k on
EvalFrom(c, k, host, fullURL, dc, cc, up) ==
  EvalRulesFrom(Configs[c].Rules, Configs[c].DefaultProxy, k, host, fullURL, dc, cc, up)

evaluateRules(c, host, fullURL, dc, cc, up) == EvalFrom(c, 1, host, fullURL, dc, cc, up)

\* ------------------------------------------------------------------------
\* State
\* ------------------------------------------------------------------------
VARIABLES
  cmConfig,          \* ConfigManager.config: the ruleset the manager holds
  decisionConfig,    \* ProxyHandler.decision.config
  hostCache,         \* ProxyDecision.hostCache
  urlCache,          \* ProxyDecision.urlCache
  ipCache,           \* ProxyDecision.ipCache (expirable)
  globCache,         \* CacheManager.globCache (pattern texts compiled)
  cidrCache,         \* CacheManager.cidrCache (texts parsed)
  dnsCache,          \* CacheManager.dnsCache (names with a live answer)
  dnsUp,             \* environment: the platform resolver answers
  req,               \* the request-handler goroutines
  supPc,             \* position of the supervisor's event loop
  trigger,           \* the trigger string of the reload in progress
  newConfig,         \* reloadConfiguration's newConfig
  currentConfig,     \* main's currentConfig
  currentListenAddr, \* main's currentListenAddr
  currentServer,     \* main's currentServer (index into servers)
  servers,           \* every http.Server instance created so far
  pendingStart,      \* servers whose ListenAndServe goroutine has not run yet
  initialStarted,    \* the goroutine of main.go:161 has run
  tickerHours,       \* period of the running reloadTicker, 0 when nil
  reloads,           \* reload triggers handled so far
  crashed,           \* a goroutine panicked: the process is gone
  lastReload,        \* outcome of the last reloadConfiguration
  bindFail,          \* which ListenAndServe failed to bind, if any
  prevKeys,          \* keys cached under the previous ruleset and not decided since
  ldPc,              \* rule loader: position
  cacheOnly,         \* rule loader: the cacheOnly flag of the load in progress
  ldTrigger,         \* rule loader: what started the load in progress
  ldTodo,            \* rule loader: external sources still to load
  cacheFile,         \* on-disk cache: content per URL
  remote,            \* environment: the body the remote serves per URL
  httpRequests,      \* HTTP requests issued during the load in progress
  loadedFrom,        \* content each source contributed to the load in progress
  lastFetch,         \* the last downloadAndCacheFile call and what it returned
  loads,             \* reloads the loader has handled
  evIn,              \* rule evaluation: the ruleset, the request and the resolver state
  evPc,              \* rule evaluation: position
  evOut,             \* rule evaluation: what evaluateRules returned
  evTwin,            \* rule evaluation: results for a rule and its negated twin
  dlIn,              \* dialContext: the descriptor, the address and the network's behaviour
  dlPc,              \* dialContext: position
  dlOut,             \* dialContext: what the call did and returned
  tnIn,              \* handleHTTPS: what getProxyDialer, Dial and Hijack will do
  tn,                \* handleHTTPS: the handler, its two sockets and the two peers
  sd,                \* shutdown: main, the event loop, the tray and the signal channels
  prIn,              \* configuration loading: the text, the rule or the file given, and the environment
  pr,                \* configuration loading: position, result and the configuration file
  tk,                \* periodic reload: the tickers, their forwarding goroutines and the event loop
  lt,                \* external lists of one rule: the loading goroutines, the mutex and the result slices
  rf,                \* refresh of external rules: the configuration objects, cm.mu and a handler evaluating
  hc                 \* GetHTTPClient: the ruleset, the upstreams map and the URL given, and what it returned

dispatchVars == << cmConfig, decisionConfig, hostCache, urlCache, ipCache, globCache,
                   cidrCache, dnsCache, dnsUp, req, supPc, trigger, newConfig,
                   currentConfig, currentListenAddr, currentServer, servers,
                   pendingStart, initialStarted, tickerHours, reloads, crashed,
                   lastReload, bindFail, prevKeys >>

loaderVars == << ldPc, cacheOnly, ldTrigger, ldTodo, cacheFile, remote, httpRequests,
                 loadedFrom, lastFetch, loads >>

evalVars == << evIn, evPc, evOut, evTwin >>

dialVars == << dlIn, dlPc, dlOut >>

tunnelVars == << tnIn, tn >>

shutdownVars == << sd >>

parseVars == << prIn, pr >>

tickerVars == << tk >>

tasksVars == << lt >>

refreshVars == << rf >>

clientVars == << hc >>

\* what the actions of one component leave alone
besideDispatch == << loaderVars, evalVars, dialVars, tunnelVars, shutdownVars, parseVars, tickerVars, tasksVars, refreshVars, clientVars >>
besideLoader == << dispatchVars, evalVars, dialVars, tunnelVars, shutdownVars, parseVars, tickerVars, tasksVars, refreshVars, clientVars >>
besideEval == << dispatchVars, loaderVars, dialVars, tunnelVars, shutdownVars, parseVars, tickerVars, tasksVars, refreshVars, clientVars >>
besideDial == << dispatchVars, loaderVars, evalVars, tunnelVars, shutdownVars, parseVars, tickerVars, tasksVars, refreshVars, clientVars >>
besideTunnel == << dispatchVars, loaderVars, evalVars, dialVars, shutdownVars, parseVars, tickerVars, tasksVars, refreshVars, clientVars >>
besideShutdown == << dispatchVars, loaderVars, evalVars, dialVars, tunnelVars, parseVars, tickerVars, tasksVars, refreshVars, clientVars >>
besideParse == << dispatchVars, loaderVars, evalVars, dialVars, tunnelVars, shutdownVars, tickerVars, tasksVars, refreshVars, clientVars >>
besideTicker == << dispatchVars, loaderVars, evalVars, dialVars, tunnelVars, shutdownVars, parseVars, tasksVars, refreshVars, clientVars >>
besideTasks == << dispatchVars, loaderVars, evalVars, dialVars, tunnelVars, shutdownVars, parseVars, tickerVars, refreshVars, clientVars >>
besideRefresh == << dispatchVars, loaderVars, evalVars, dialVars, tunnelVars, shutdownVars, parseVars, tickerVars, tasksVars, clientVars >>
besideClient == << dispatchVars, loaderVars, evalVars, dialVars, tunnelVars, shutdownVars, parseVars, tickerVars, tasksVars, refreshVars >>

vars == << cmConfig, decisionConfig, hostCache, urlCache, ipCache, globCache,
           cidrCache, dnsCache, dnsUp, req, supPc, trigger, newConfig,
           currentConfig, currentListenAddr, currentServer, servers,
           pendingStart, initialStarted, tickerHours, reloads, crashed,
           lastReload, bindFail, prevKeys,
           ldPc, cacheOnly, ldTrigger, ldTodo, cacheFile, remote, httpRequests,
           loadedFrom, lastFetch, loads,
           evIn, evPc, evOut, evTwin,
           dlIn, dlPc, dlOut,
           tnIn, tn, sd, prIn, pr, tk, lt, rf, hc >>

Slots == 1..NReq

\* a cache slot without an entry; by is the ruleset that computed an entry
NoEntry == [res |-> NoResult, by |-> 0]
Entry(res, c) == [res |-> res, by |-> c]

IdleReq ==
  [pc |-> "idle", r |-> 0, srv |-> 0, config |-> 0, decidedBy |-> 0,
   decision |-> NoResult, expected |-> NoResult, via |-> "none", by |-> 0,
   hostWasCached |-> FALSE, urlWasCached |-> FALSE,
   proxyURL |-> NoProxy, status |-> 0, dialed |-> "none",
   hijacked |-> FALSE, connClosed |-> FALSE, epoch |-> 0]

Server(addr) == [addr |-> addr, state |-> "created"]

\* the external rule sources the rules of the configuration name
ExtURLs == {"http://lists/a", "http://lists/b"}

\* ---------------------------------------------------------------------------
\* Upstream descriptors and ProxyHandler.dialContext
\* ---------------------------------------------------------------------------

\* the proxy descriptors a ruleset can carry
Descriptors == {"", "#", "http://up:3128", "HTTP://up:3128", "https://user:pw@up:3128",
                "http://user@up:3128", "socks5://s:1080", "socks5h://user:pw@s:1080",
                "ftp://f:21", "up:3128", "://bad"}

NoURL == [ok |-> FALSE, scheme |-> "", host |-> "", hasUser |-> FALSE,
          username |-> "", password |-> ""]

\* url.Parse(proxyURL): the scheme is lowercased, the userinfo is split at its
\* first colon, a text without "//" after the scheme has no host, and a text
\* without a scheme before "://" does not parse
ParseURL(p) ==
  CASE p = "http://up:3128" ->
         [NoURL EXCEPT !.ok = TRUE, !.scheme = "http", !.host = "up:3128"]
    [] p = "HTTP://up:3128" ->
         [NoURL EXCEPT !.ok = TRUE, !.scheme = "http", !.host = "up:3128"]
    [] p = "https://user:pw@up:3128" ->
         [NoURL EXCEPT !.ok = TRUE, !.scheme = "https", !.host = "up:3128",
                       !.hasUser = TRUE, !.username = "user", !.password = "pw"]
    [] p = "http://user@up:3128" ->
         [NoURL EXCEPT !.ok = TRUE, !.scheme = "http", !.host = "up:3128",
                       !.hasUser = TRUE, !.username = "user"]
    [] p = "socks5://s:1080" ->
         [NoURL EXCEPT !.ok = TRUE, !.scheme = "socks5", !.host = "s:1080"]
    [] p = "socks5h://user:pw@s:1080" ->
         [NoURL EXCEPT !.ok = TRUE, !.scheme = "socks5h", !.host = "s:1080",
                       !.hasUser = TRUE, !.username = "user", !.password = "pw"]
    [] p = "ftp://f:21" ->
         [NoURL EXCEPT !.ok = TRUE, !.scheme = "ftp", !.host = "f:21"]
    [] p = "up:3128" ->
         [NoURL EXCEPT !.ok = TRUE, !.scheme = "up"]
    [] OTHER -> NoURL

\* base64.StdEncoding.EncodeToString for the credentials of the universe
Base64(t) ==
  CASE t = "user:pw" -> "dXNlcjpwdw=="
    [] t = "user:" -> "dXNlcjo="
    [] OTHER -> "Og=="

\* dialContext's branch for an unknown scheme, were it to fall back to a
\* direct dial
dialActionUnknownDirect(p) ==
  IF p = "#" THEN "blocked"
  ELSE IF p = "" THEN "direct"
  ELSE IF ~ParseURL(p).ok THEN "parse-error"
  ELSE IF ParseURL(p).scheme \in {"socks5", "socks5h"} THEN "socks5"
  ELSE IF ParseURL(p).scheme \in {"http", "https"} THEN "http-connect"
  ELSE "direct"

\* dialContext: the branch taken for a descriptor
dialAction(p) ==
  IF p = "#" THEN "blocked"
  ELSE IF p = "" THEN "direct"
  ELSE IF ~ParseURL(p).ok THEN "parse-error"
  ELSE IF ParseURL(p).scheme \in {"socks5", "socks5h"} THEN "socks5"
  ELSE IF ParseURL(p).scheme \in {"http", "https"} THEN "http-connect"
  ELSE "unsupported"

\* connectReq with the Proxy-Authorization line on every request
connectReqAlwaysAuth(addr, u) ==
  "CONNECT " \o addr \o " HTTP/1.1\r\nHost: " \o addr \o "\r\n"
    \o "Proxy-Authorization: Basic " \o Base64(u.username \o ":" \o u.password) \o "\r\n"
    \o "\r\n"

\* dialContext: the bytes of connectReq for the target addr and the parsed
\* descriptor u
connectReq(addr, u) ==
  "CONNECT " \o addr \o " HTTP/1.1\r\nHost: " \o addr \o "\r\n"
    \o (IF u.hasUser
          THEN "Proxy-Authorization: Basic "
                 \o Base64(u.username \o ":" \o u.password) \o "\r\n"
        ELSE "")
    \o "\r\n"

\* what the network does during one dialContext call: whether the target and
\* the upstream accept a connection, whether the write to the upstream
\* succeeds, and the status of the upstream's answer (0: no readable answer)
DialEnvs == [targetUp : BOOLEAN, upstreamUp : BOOLEAN, writeOk : BOOLEAN,
             status : {0, 200, 204, 407, 502}]

NoDial == [err |-> "", conn |-> "none", dials |-> <<>>, sent |-> "", closed |-> FALSE]

\* one dial: the kind of dialer, the address dialed, the address asked of a
\* SOCKS5 upstream, and the credentials handed to it
DialOf(kind, to, target, user, pass) ==
  [kind |-> kind, to |-> to, target |-> target, user |-> user, pass |-> pass]

\* dialContext, case "http", "https": connect to the upstream, write
\* connectReq, read the answer, and return the connection on status 200
dialHTTPConnect(addr, u, env) ==
  LET d == << DialOf("tcp", u.host, "", "", "") >>
      sent == connectReq(addr, u)
  IN IF ~env.upstreamUp
       THEN [NoDial EXCEPT !.err = "error connecting to HTTP proxy", !.dials = d]
     ELSE IF ~env.writeOk
       THEN [NoDial EXCEPT !.err = "error sending CONNECT request", !.dials = d,
                           !.closed = TRUE]
     ELSE IF env.status = 0
       THEN [NoDial EXCEPT !.err = "error reading proxy response", !.dials = d,
                           !.sent = sent, !.closed = TRUE]
     ELSE IF env.status # 200
       THEN [NoDial EXCEPT !.err = "proxy CONNECT failed with status", !.dials = d,
                           !.sent = sent, !.closed = TRUE]
     ELSE [NoDial EXCEPT !.conn = "upstream", !.dials = d, !.sent = sent]

\* dialContext, case "socks5", "socks5h": a SOCKS5 dialer for the upstream,
\* with the descriptor's credentials, asked for the target
dialSOCKS5(addr, u, env) ==
  LET d == << DialOf("socks5", u.host, addr,
                     IF u.hasUser THEN u.username ELSE "",
                     IF u.hasUser THEN u.password ELSE "") >>
  IN IF env.upstreamUp /\ env.targetUp
       THEN [NoDial EXCEPT !.conn = "socks5", !.dials = d]
     ELSE [NoDial EXCEPT !.err = "dial", !.dials = d]

\* ProxyHandler.dialContext as a whole: hasValue is whether the request
\* context carries a descriptor
dialContextResult(hasValue, p, addr, env) ==
  IF ~hasValue THEN [NoDial EXCEPT !.err = "proxy URL not found in context"]
  ELSE
    CASE dialAction(p) = "blocked" ->
           [NoDial EXCEPT !.err = "connection blocked by proxy configuration"]
      [] dialAction(p) = "direct" ->
           IF env.targetUp
             THEN [NoDial EXCEPT !.conn = "target",
                                 !.dials = << DialOf("tcp", addr, "", "", "") >>]
           ELSE [NoDial EXCEPT !.err = "dial",
                               !.dials = << DialOf("tcp", addr, "", "", "") >>]
      [] dialAction(p) = "parse-error" ->
           [NoDial EXCEPT !.err = "error parsing proxy URL"]
      [] dialAction(p) = "socks5" -> dialSOCKS5(addr, ParseURL(p), env)
      [] dialAction(p) = "http-connect" -> dialHTTPConnect(addr, ParseURL(p), env)
      [] OTHER -> [NoDial EXCEPT !.err = "unsupported proxy scheme"]

NoFetch == [url |-> "none", cacheOnly |-> FALSE, branch |-> "none", hadCache |-> FALSE,
            before |-> "none", outcome |-> "none", path |-> FALSE, err |-> FALSE]

\* the loader's variables while the dispatcher specification runs
LoaderIdle ==
  /\ ldPc = "boot"
  /\ cacheOnly = TRUE
  /\ ldTrigger = "none"
  /\ ldTodo = {}
  /\ cacheFile = [u \in ExtURLs |-> "none"]
  /\ remote = [u \in ExtURLs |-> "v1"]
  /\ httpRequests = 0
  /\ loadedFrom = [u \in ExtURLs |-> "unset"]
  /\ lastFetch = NoFetch
  /\ loads = 0

\* the rule evaluation's variables while another specification runs
EvalIdle ==
  /\ evIn = [rules |-> <<>>, host |-> "", url |-> "", up |-> FALSE, dc |-> {}]
  /\ evPc = "off"
  /\ evOut = NoResult
  /\ evTwin = [k |-> 0, pos |-> NoResult, neg |-> NoResult]

\* dialContext's variables while another specification runs
DialIdle ==
  /\ dlIn = [hasValue |-> FALSE, p |-> "", addr |-> "",
             env |-> [targetUp |-> FALSE, upstreamUp |-> FALSE, writeOk |-> FALSE,
                      status |-> 0]]
  /\ dlPc = "off"
  /\ dlOut = NoDial

\* handleHTTPS before it is called: no status written, no stream, the client
\* socket with the HTTP server, both peers connected, nothing in transit
NoTunnel == [pc |-> "off", sent |-> << >>, stream |-> FALSE, dialFailed |-> FALSE,
             clientSock |-> "server", targetSock |-> "none",
             clientPeer |-> "open", targetPeer |-> "open",
             c2t |-> FALSE, t2c |-> FALSE,
             pumpC2T |-> "none", pumpT2C |-> "none"]

\* handleHTTPS's variables while another specification runs
TunnelIdle ==
  /\ tnIn = [dialer |-> "nil", dialOk |-> FALSE, hijack |-> "ok"]
  /\ tn = NoTunnel

\* main() once the event loop and the first ListenAndServe goroutine are
\* started and before trayManager.Start() is called: both signal channels
\* empty, quitChan open, the listener up
NoShutdown == [build |-> "other", mainPc |-> "off", loopPc |-> "select",
               sigChan |-> << >>, traySig |-> << >>, trayDone |-> FALSE,
               systrayQuit |-> FALSE, quitClosed |-> FALSE, listener |-> "open",
               signals |-> 0, owed |-> FALSE, inReload |-> FALSE, dropped |-> FALSE]

\* the shutdown variables while another specification runs
ShutdownIdle == sd = NoShutdown

\* LoadConfig and the list parser before they are called: nothing returned,
\* no configuration file written
NoParse == [pc |-> "off", out |-> << >>, file |-> "absent", first |-> "none"]

\* the configuration loading variables while another specification runs
ParseIdle ==
  /\ prIn = [kind |-> "none"]
  /\ pr = NoParse

\* the periodic reload variables while another specification runs
NoTicker == [pc |-> "off"]

TickerIdle == tk = NoTicker

\* the list loading goroutines while another specification runs
NoTasks == [pc |-> "off"]

TasksIdle == lt = NoTasks

\* the refresh variables while another specification runs
NoRefresh == [pc |-> "off"]

RefreshIdle == rf = NoRefresh

\* the GetHTTPClient variables while another specification runs
NoClient == [pc |-> "off"]

ClientIdle == hc = NoClient

\* main(): the state once NewProxyHandler has returned and the http.Server
\* has been created
InitDispatch ==
  /\ cmConfig = 1
  /\ decisionConfig = cmConfig
  /\ hostCache = [h \in HostNames |-> NoEntry]
  /\ urlCache = [u \in URLNames |-> NoEntry]
  /\ ipCache = [h \in HostNames |-> NoEntry]
  /\ globCache = PrecompileGlobs(cmConfig)
  /\ cidrCache = PrecompileCIDRs(cmConfig)
  /\ dnsCache = {}
  /\ req = [i \in Slots |-> IdleReq]
  /\ supPc = "idle"
  /\ trigger = "none"
  /\ newConfig = 0
  /\ currentConfig = cmConfig
  /\ currentListenAddr = Configs[cmConfig].ListenAddr
  /\ currentServer = 1
  /\ servers = << Server(Configs[cmConfig].ListenAddr) >>
  /\ pendingStart = {}
  /\ initialStarted = FALSE
  /\ tickerHours = Configs[cmConfig].AutoReloadHours
  /\ reloads = 0
  /\ crashed = FALSE
  /\ lastReload = "none"
  /\ bindFail = "none"
  /\ prevKeys = {}

Init ==
  /\ InitDispatch
  /\ ClientIdle
  /\ RefreshIdle
  /\ TasksIdle
  /\ TickerIdle
  /\ ParseIdle
  /\ dnsUp \in BOOLEAN
  /\ LoaderIdle
  /\ EvalIdle
  /\ DialIdle
  /\ TunnelIdle
  /\ ShutdownIdle

\* ------------------------------------------------------------------------
\* Request dispatcher
\* ------------------------------------------------------------------------
Listening(s) == servers[s].state = "listening"

\* http.Server accepts a connection on a listening instance and runs
\* ServeHTTP for request k in a new goroutine (the first free slot: the
\* goroutines are interchangeable)
Accept(i, k) ==
  /\ ~crashed
  /\ req[i].pc = "idle"
  /\ \A j \in Slots : j < i => req[j].pc # "idle"
  /\ \E s \in 1..Len(servers) :
       /\ Listening(s)
       /\ req' = [req EXCEPT ![i] = [IdleReq EXCEPT !.pc = "accepted", !.r = k, !.srv = s,
                                                   !.epoch = reloads]]
  /\ UNCHANGED << cmConfig, decisionConfig, hostCache, urlCache, ipCache, globCache,
                  cidrCache, dnsCache, dnsUp, supPc, trigger, newConfig, currentConfig,
                  currentListenAddr, currentServer, servers, pendingStart, initialStarted,
                  tickerHours, reloads, crashed, lastReload, bindFail, prevKeys >>
  /\ UNCHANGED besideDispatch

\* handleRequest: p.mu.RLock(), then config := p.configManager.GetConfig(),
\* which takes cm.mu for reading and so waits while ReloadConfig holds it
\* for writing
ReqGetConfig(i) ==
  /\ ~crashed
  /\ req[i].pc = "accepted"
  /\ supPc # "reloading"
  /\ req' = [req EXCEPT ![i].pc = "snap", ![i].config = cmConfig]
  /\ UNCHANGED << cmConfig, decisionConfig, hostCache, urlCache, ipCache, globCache,
                  cidrCache, dnsCache, dnsUp, supPc, trigger, newConfig, currentConfig,
                  currentListenAddr, currentServer, servers, pendingStart, initialStarted,
                  tickerHours, reloads, crashed, lastReload, bindFail, prevKeys >>
  /\ UNCHANGED besideDispatch

\* variant: every fresh result goes to the host cache
CacheForAlwaysHost(res) == "host"

\* which decision cache a fresh result goes to
CacheFor(res) ==
  IF res.MatchType = "url" THEN "url" ELSE IF res.MatchType = "ip" THEN "ip" ELSE "host"

\* getProxyDecision once evaluateRules would return ev: the decision caches
\* are looked up first (url, host, ip) and ev is used and cached on a miss
decisionFrom(host, fullURL, ev) ==
  LET keep == [uc |-> urlCache, hc |-> hostCache, ic |-> ipCache, dc |-> dnsCache, cc |-> cidrCache]
  IN IF urlCache[fullURL] # NoEntry
       THEN [res |-> urlCache[fullURL].res, via |-> "url", by |-> urlCache[fullURL].by] @@ keep
     ELSE IF hostCache[host] # NoEntry
       THEN [res |-> hostCache[host].res, via |-> "host", by |-> hostCache[host].by] @@ keep
     ELSE IF ipCache[host] # NoEntry
       THEN [res |-> ipCache[host].res, via |-> "ip", by |-> ipCache[host].by] @@ keep
     ELSE [res |-> ev.res, via |-> "miss", by |-> decisionConfig,
           uc |-> IF CacheFor(ev.res) = "url"
                  THEN [urlCache EXCEPT ![fullURL] = Entry(ev.res, decisionConfig)] ELSE urlCache,
           ic |-> IF CacheFor(ev.res) = "ip"
                  THEN [ipCache EXCEPT ![host] = Entry(ev.res, decisionConfig)] ELSE ipCache,
           hc |-> IF CacheFor(ev.res) = "host"
                  THEN [hostCache EXCEPT ![host] = Entry(ev.res, decisionConfig)] ELSE hostCache,
           dc |-> ev.dc, cc |-> ev.cc]

\* ProxyDecision.getProxyDecision on the live caches: the result, where it
\* came from and the caches afterwards
getProxyDecision(host, fullURL) ==
  decisionFrom(host, fullURL,
               evaluateRules(decisionConfig, host, fullURL, dnsCache, cidrCache, dnsUp))

\* handleRequest: decisionResult := p.decision.GetProxyForRequest(r), then
\* p.mu.RUnlock()
ReqDecide(i) ==
  /\ ~crashed
  /\ req[i].pc = "snap"
  /\ \E d \in {getProxyDecision(Requests[req[i].r].host, Requests[req[i].r].url)} :
     LET r == Requests[req[i].r]
         fresh == evaluateRules(decisionConfig, r.host, r.url, dnsCache, cidrCache, dnsUp).res
     IN /\ req' = [req EXCEPT ![i].pc = "decided", ![i].decision = d.res,
                              ![i].decidedBy = decisionConfig, ![i].via = d.via,
                              ![i].by = d.by, ![i].expected = fresh,
                              ![i].hostWasCached = (r.host \in prevKeys),
                              ![i].urlWasCached = (r.url \in prevKeys)]
        /\ urlCache' = d.uc
        /\ hostCache' = d.hc
        /\ ipCache' = d.ic
        /\ dnsCache' = d.dc
        /\ cidrCache' = d.cc
        /\ prevKeys' = prevKeys \ {r.host, r.url}
  /\ UNCHANGED << cmConfig, decisionConfig, globCache, dnsUp, supPc, trigger, newConfig,
                  currentConfig, currentListenAddr, currentServer, servers, pendingStart,
                  initialStarted, tickerHours, reloads, crashed, lastReload, bindFail >>
  /\ UNCHANGED besideDispatch

\* variant: the block descriptor is not recognised and handed to goproxy
handleRequestResolveNoBlock(i) ==
  LET key == req[i].decision.Proxy
      c == req[i].config
      rq == [req[i] EXCEPT !.config = 0, !.decidedBy = 0, !.decision = NoResult,
                           !.expected = NoResult, !.via = "none", !.by = 0,
                           !.hostWasCached = FALSE, !.urlWasCached = FALSE]
  IN IF ~ProxyExists(c, key)
       THEN [rq EXCEPT !.pc = "done", !.status = 500]
     ELSE [rq EXCEPT !.pc = "serving", !.proxyURL = ProxyLookup(c, key)]

\* variant: the map lookup without the comma-ok test; a missing key reads as
\* the empty descriptor
handleRequestResolveNoExists(i) ==
  LET key == req[i].decision.Proxy
      c == req[i].config
      p == IF ProxyExists(c, key) THEN ProxyLookup(c, key) ELSE ""
      rq == [req[i] EXCEPT !.config = 0, !.decidedBy = 0, !.decision = NoResult,
                           !.expected = NoResult, !.via = "none", !.by = 0,
                           !.hostWasCached = FALSE, !.urlWasCached = FALSE]
  IN IF p = "#"
       THEN [rq EXCEPT !.pc = "done", !.status = 403, !.proxyURL = "#"]
     ELSE [rq EXCEPT !.pc = "serving", !.proxyURL = p]

\* handleRequest after the lock is released: look the key up in the snapshot,
\* answer 500 for an unknown key and 403 for the block descriptor, otherwise
\* put the descriptor in the request context and hand over to goproxy
handleRequestResolve(i) ==
  LET key == req[i].decision.Proxy
      c == req[i].config
      \* the handler's locals are not read again
      rq == [req[i] EXCEPT !.config = 0, !.decidedBy = 0, !.decision = NoResult,
                           !.expected = NoResult, !.via = "none", !.by = 0,
                           !.hostWasCached = FALSE, !.urlWasCached = FALSE]
  IN IF ~ProxyExists(c, key)
       THEN [rq EXCEPT !.pc = "done", !.status = 500]
     ELSE IF ProxyLookup(c, key) = "#"
       THEN [rq EXCEPT !.pc = "done", !.status = 403, !.proxyURL = "#"]
     ELSE [rq EXCEPT !.pc = "serving", !.proxyURL = ProxyLookup(c, key)]

ReqResolve(i) ==
  /\ ~crashed
  /\ req[i].pc = "decided"
  /\ req' = [req EXCEPT ![i] = handleRequestResolve(i)]
  /\ UNCHANGED << cmConfig, decisionConfig, hostCache, urlCache, ipCache, globCache,
                  cidrCache, dnsCache, dnsUp, supPc, trigger, newConfig, currentConfig,
                  currentListenAddr, currentServer, servers, pendingStart, initialStarted,
                  tickerHours, reloads, crashed, lastReload, bindFail, prevKeys >>
  /\ UNCHANGED besideDispatch

\* url.Parse(proxyURL).Scheme
Scheme(p) == ParseURL(p).scheme

\* ProxyHandler.dialContext: what is dialed for a descriptor
dialContext(p) ==
  IF p = "#" THEN "none"
  ELSE IF p = "" THEN "target"
  ELSE IF ParseURL(p).ok /\ Scheme(p) \in {"socks5", "socks5h", "http", "https"}
    THEN "upstream"
  ELSE "none"

\* p.proxyServer.ServeHTTP: goproxy dials through dialContext; ok is whether
\* the dial (and the upstream handshake) succeeds.  A CONNECT whose stream was
\* obtained is hijacked and spliced, a plain request is answered.
ReqDial(i, ok) ==
  /\ ~crashed
  /\ req[i].pc = "serving"
  /\ LET what == dialContext(req[i].proxyURL)
         r == Requests[req[i].r]
     IN req' = [req EXCEPT ![i] =
          IF what = "none" \/ ~ok
          THEN [@ EXCEPT !.pc = "done", !.status = 502, !.dialed = what]
          ELSE IF r.connect
          THEN [@ EXCEPT !.pc = "tunnel", !.status = 200, !.dialed = what, !.hijacked = TRUE]
          ELSE [@ EXCEPT !.pc = "done", !.status = 200, !.dialed = what]]
  /\ UNCHANGED << cmConfig, decisionConfig, hostCache, urlCache, ipCache, globCache,
                  cidrCache, dnsCache, dnsUp, supPc, trigger, newConfig, currentConfig,
                  currentListenAddr, currentServer, servers, pendingStart, initialStarted,
                  tickerHours, reloads, crashed, lastReload, bindFail, prevKeys >>
  /\ UNCHANGED besideDispatch

\* one side of a spliced CONNECT tunnel closes
TunnelClose(i) ==
  /\ ~crashed
  /\ req[i].pc = "tunnel"
  /\ req' = [req EXCEPT ![i].pc = "done"]
  /\ UNCHANGED << cmConfig, decisionConfig, hostCache, urlCache, ipCache, globCache,
                  cidrCache, dnsCache, dnsUp, supPc, trigger, newConfig, currentConfig,
                  currentListenAddr, currentServer, servers, pendingStart, initialStarted,
                  tickerHours, reloads, crashed, lastReload, bindFail, prevKeys >>
  /\ UNCHANGED besideDispatch

\* the handler goroutine returns; the slot serves the next connection
ReqReturn(i) ==
  /\ ~crashed
  /\ req[i].pc = "done"
  /\ req' = [req EXCEPT ![i] = IdleReq]
  /\ UNCHANGED << cmConfig, decisionConfig, hostCache, urlCache, ipCache, globCache,
                  cidrCache, dnsCache, dnsUp, supPc, trigger, newConfig, currentConfig,
                  currentListenAddr, currentServer, servers, pendingStart, initialStarted,
                  tickerHours, reloads, crashed, lastReload, bindFail, prevKeys >>
  /\ UNCHANGED besideDispatch

\* ------------------------------------------------------------------------
\* Environment: resolver reachability and the TTL of the expirable caches
\* ------------------------------------------------------------------------
DnsFlip ==
  /\ ~crashed
  /\ dnsUp' = ~dnsUp
  /\ UNCHANGED << cmConfig, decisionConfig, hostCache, urlCache, ipCache, globCache,
                  cidrCache, dnsCache, req, supPc, trigger, newConfig, currentConfig,
                  currentListenAddr, currentServer, servers, pendingStart, initialStarted,
                  tickerHours, reloads, crashed, lastReload, bindFail, prevKeys >>
  /\ UNCHANGED besideDispatch

\* IPResolutionTTL passes for an entry of the DNS cache
ExpireDNS(h) ==
  /\ ~crashed
  /\ h \in dnsCache
  /\ dnsCache' = dnsCache \ {h}
  /\ UNCHANGED << cmConfig, decisionConfig, hostCache, urlCache, ipCache, globCache,
                  cidrCache, dnsUp, req, supPc, trigger, newConfig, currentConfig,
                  currentListenAddr, currentServer, servers, pendingStart, initialStarted,
                  tickerHours, reloads, crashed, lastReload, bindFail, prevKeys >>
  /\ UNCHANGED besideDispatch

\* IPResolutionTTL passes for an entry of the IP decision cache
ExpireIPDecision(h) ==
  /\ ~crashed
  /\ ipCache[h] # NoEntry
  /\ ipCache' = [ipCache EXCEPT ![h] = NoEntry]
  /\ UNCHANGED << cmConfig, decisionConfig, hostCache, urlCache, globCache,
                  cidrCache, dnsCache, dnsUp, req, supPc, trigger, newConfig, currentConfig,
                  currentListenAddr, currentServer, servers, pendingStart, initialStarted,
                  tickerHours, reloads, crashed, lastReload, bindFail, prevKeys >>
  /\ UNCHANGED besideDispatch

\* ------------------------------------------------------------------------
\* Supervisor: reload and listener restart
\* ------------------------------------------------------------------------
Triggers == {"Received SIGHUP signal", "Manual reload from tray", "Periodic update"}

\* the event loop takes a reload trigger and reloadConfiguration enters
\* ConfigManager.ReloadConfig, which locks cm.mu and starts LoadConfig
ReloadBegin(t) ==
  /\ ~crashed
  /\ supPc = "idle"
  /\ reloads < MaxReloads
  /\ t = "Periodic update" => tickerHours > 0
  /\ supPc' = "reloading"
  /\ trigger' = t
  /\ reloads' = reloads + 1
  /\ UNCHANGED << cmConfig, decisionConfig, hostCache, urlCache, ipCache, globCache,
                  cidrCache, dnsCache, dnsUp, req, newConfig, currentConfig,
                  currentListenAddr, currentServer, servers, pendingStart, initialStarted,
                  tickerHours, crashed, lastReload, bindFail, prevKeys >>
  /\ UNCHANGED besideDispatch

\* variant: cm.config is assigned before the error is returned
ReloadConfigFailAssigned ==
  /\ ~crashed
  /\ supPc = "reloading"
  /\ supPc' = "idle"
  /\ lastReload' = "failed"
  /\ trigger' = "none"
  /\ cmConfig' = (cmConfig % Len(Configs)) + 1
  /\ UNCHANGED << decisionConfig, hostCache, urlCache, ipCache, globCache,
                  cidrCache, dnsCache, dnsUp, req, newConfig, currentConfig,
                  currentListenAddr, currentServer, servers, pendingStart, initialStarted,
                  tickerHours, reloads, crashed, bindFail, prevKeys >>
  /\ UNCHANGED besideDispatch

\* ConfigManager.ReloadConfig when LoadConfig returns an error: the error is
\* returned before cm.config is assigned, reloadConfiguration logs and returns
\* (its parameter trigger goes out of scope)
ReloadConfigFail ==
  /\ ~crashed
  /\ supPc = "reloading"
  /\ supPc' = "idle"
  /\ lastReload' = "failed"
  /\ trigger' = "none"
  /\ UNCHANGED << cmConfig, decisionConfig, hostCache, urlCache, ipCache, globCache,
                  cidrCache, dnsCache, dnsUp, req, newConfig, currentConfig,
                  currentListenAddr, currentServer, servers, pendingStart, initialStarted,
                  tickerHours, reloads, crashed, bindFail, prevKeys >>
  /\ UNCHANGED besideDispatch

\* ConfigManager.ReloadConfig when LoadConfig returns ruleset c: cm.config is
\* replaced and cm.mu released
ReloadConfigOk(c) ==
  /\ ~crashed
  /\ supPc = "reloading"
  /\ supPc' = "loaded"
  /\ cmConfig' = c
  /\ newConfig' = c
  /\ UNCHANGED << decisionConfig, hostCache, urlCache, ipCache, globCache,
                  cidrCache, dnsCache, dnsUp, req, trigger, currentConfig,
                  currentListenAddr, currentServer, servers, pendingStart, initialStarted,
                  tickerHours, reloads, crashed, lastReload, bindFail, prevKeys >>
  /\ UNCHANGED besideDispatch

\* startTicker: the old ticker is stopped, a new one runs when hours > 0
startTicker(hours) == IF hours > 0 THEN hours ELSE 0

\* reloadConfiguration: reconfigure the ticker when auto_reload_hours changed,
\* then currentConfig = newConfig
ReloadApply ==
  /\ ~crashed
  /\ supPc = "loaded"
  /\ supPc' = "applied"
  /\ tickerHours' = IF Configs[newConfig].AutoReloadHours # Configs[currentConfig].AutoReloadHours
                    THEN startTicker(Configs[newConfig].AutoReloadHours)
                    ELSE tickerHours
  /\ currentConfig' = newConfig
  /\ UNCHANGED << cmConfig, decisionConfig, hostCache, urlCache, ipCache, globCache,
                  cidrCache, dnsCache, dnsUp, req, trigger, newConfig,
                  currentListenAddr, currentServer, servers, pendingStart, initialStarted,
                  reloads, crashed, lastReload, bindFail, prevKeys >>
  /\ UNCHANGED besideDispatch

\* the keys the decision caches hold
CachedKeys ==
  {h \in HostNames : hostCache[h] # NoEntry \/ ipCache[h] # NoEntry}
    \cup {u \in URLNames : urlCache[u] # NoEntry}

\* variant: the engine for ruleset c keeps the caches of its predecessor
NewProxyDecisionKeep(c) ==
  [config |-> c, hostCache |-> hostCache, urlCache |-> urlCache, ipCache |-> ipCache]

\* NewProxyDecision: the decision engine for ruleset c with its three caches
NewProxyDecision(c) ==
  [config |-> c,
   hostCache |-> [h \in HostNames |-> NoEntry],
   urlCache |-> [u \in URLNames |-> NoEntry],
   ipCache |-> [h \in HostNames |-> NoEntry]]

\* ProxyHandler.UpdateConfig under p.mu.Lock(): no handler is inside its read
\* section; the pattern maps are rebuilt and a new decision engine installed
UpdateConfig ==
  /\ ~crashed
  /\ supPc = "applied"
  /\ \A i \in Slots : req[i].pc # "snap"
  /\ supPc' = "updated"
  /\ globCache' = PrecompileGlobs(cmConfig)
  /\ cidrCache' = PrecompileCIDRs(cmConfig)
  /\ LET d == NewProxyDecision(cmConfig)
     IN /\ decisionConfig' = d.config
        /\ hostCache' = d.hostCache
        /\ urlCache' = d.urlCache
        /\ ipCache' = d.ipCache
  /\ prevKeys' = CachedKeys
  /\ UNCHANGED << cmConfig, dnsCache, dnsUp, req, trigger, newConfig, currentConfig,
                  currentListenAddr, currentServer, servers, pendingStart, initialStarted,
                  tickerHours, reloads, crashed, lastReload, bindFail >>
  /\ UNCHANGED besideDispatch

\* http.Server.Close on instance s: the listener is closed and so is every
\* connection the server tracks; a hijacked connection is no longer tracked
ServerClose(s) == [servers EXCEPT ![s].state = "closed"]
ConnsClosedBy(s) ==
  [i \in Slots |->
     IF /\ req[i].srv = s
        /\ req[i].pc \in {"accepted", "snap", "decided", "serving"}
        /\ ~req[i].hijacked
     THEN [req[i] EXCEPT !.connClosed = TRUE]
     ELSE req[i]]

\* variant: the new instance is started but the old one is left open
restartServerKeepOld ==
  LET newListenAddr == Configs[currentConfig].ListenAddr
  IN IF newListenAddr # currentListenAddr
     THEN /\ servers' = Append(servers, Server(newListenAddr))
          /\ req' = req
          /\ pendingStart' = pendingStart \cup {Len(servers) + 1}
          /\ currentServer' = Len(servers) + 1
          /\ currentListenAddr' = newListenAddr
     ELSE UNCHANGED << servers, req, pendingStart, currentServer, currentListenAddr >>

\* restartServerIfAddressChanged(currentConfig)
restartServerIfAddressChanged ==
  LET newListenAddr == Configs[currentConfig].ListenAddr
  IN IF newListenAddr # currentListenAddr
     THEN /\ servers' = Append(ServerClose(currentServer), Server(newListenAddr))
          /\ req' = ConnsClosedBy(currentServer)
          /\ pendingStart' = pendingStart \cup {Len(servers) + 1}
          /\ currentServer' = Len(servers) + 1
          /\ currentListenAddr' = newListenAddr
     ELSE UNCHANGED << servers, req, pendingStart, currentServer, currentListenAddr >>

ReloadRestart ==
  /\ ~crashed
  /\ supPc = "updated"
  /\ supPc' = "idle"
  /\ lastReload' = "ok"
  /\ trigger' = "none"
  /\ newConfig' = 0
  /\ restartServerIfAddressChanged
  /\ UNCHANGED << cmConfig, decisionConfig, hostCache, urlCache, ipCache, globCache,
                  cidrCache, dnsCache, dnsUp, currentConfig,
                  initialStarted, tickerHours, reloads, crashed, bindFail, prevKeys >>
  /\ UNCHANGED besideDispatch

\* the address is taken by a listening instance of this process
AddrInUse(addr) == \E s \in 1..Len(servers) : Listening(s) /\ servers[s].addr = addr

\* http.Server.ListenAndServe on instance s, called by goroutine who; busy is
\* whether another process holds the address.  A closed server returns
\* ErrServerClosed; a bind error is logged and the goroutine panics.
ListenAndServe(s, who, busy) ==
  IF servers[s].state = "closed"
  THEN UNCHANGED << servers, crashed, bindFail >>
  ELSE IF busy \/ AddrInUse(servers[s].addr)
  THEN /\ crashed' = TRUE
       /\ bindFail' = who
       /\ UNCHANGED servers
  ELSE /\ servers' = [servers EXCEPT ![s].state = "listening"]
       /\ UNCHANGED << crashed, bindFail >>

\* main.go: go func() { currentServer.ListenAndServe() ... }()
StartInitial(busy) ==
  /\ ~crashed
  /\ ~initialStarted
  /\ supPc \in {"idle", "reloading", "loaded", "applied", "updated"}
  /\ initialStarted' = TRUE
  /\ ListenAndServe(currentServer, "initial", busy)
  /\ UNCHANGED << cmConfig, decisionConfig, hostCache, urlCache, ipCache, globCache,
                  cidrCache, dnsCache, dnsUp, req, supPc, trigger, newConfig, currentConfig,
                  currentListenAddr, currentServer, pendingStart,
                  tickerHours, reloads, lastReload, prevKeys >>
  /\ UNCHANGED besideDispatch

\* restartServerIfAddressChanged: go func() { newServer.ListenAndServe() ... }()
StartNew(s, busy) ==
  /\ ~crashed
  /\ s \in pendingStart
  /\ pendingStart' = pendingStart \ {s}
  /\ ListenAndServe(s, "reload", busy)
  /\ UNCHANGED << cmConfig, decisionConfig, hostCache, urlCache, ipCache, globCache,
                  cidrCache, dnsCache, dnsUp, req, supPc, trigger, newConfig, currentConfig,
                  currentListenAddr, currentServer, initialStarted,
                  tickerHours, reloads, lastReload, prevKeys >>
  /\ UNCHANGED besideDispatch

\* ------------------------------------------------------------------------
\* Specification of the dispatcher and the supervisor
\* ------------------------------------------------------------------------
Next ==
  \/ \E i \in Slots, k \in ReqIds : Accept(i, k)
  \/ \E i \in Slots : ReqGetConfig(i)
  \/ \E i \in Slots : ReqDecide(i)
  \/ \E i \in Slots : ReqResolve(i)
  \/ \E i \in Slots, ok \in BOOLEAN : ReqDial(i, ok)
  \/ \E i \in Slots : TunnelClose(i)
  \/ \E i \in Slots : ReqReturn(i)
  \/ DnsFlip
  \/ \E h \in HostNames : ExpireDNS(h)
  \/ \E h \in HostNames : ExpireIPDecision(h)
  \/ \E t \in Triggers : ReloadBegin(t)
  \/ ReloadConfigFail
  \/ \E c \in CfgIds : ReloadConfigOk(c)
  \/ ReloadApply
  \/ UpdateConfig
  \/ ReloadRestart
  \/ \E busy \in BOOLEAN : StartInitial(busy)
  \/ \E s \in 1..Len(servers), busy \in BOOLEAN : StartNew(s, busy)

Spec == Init /\ [][Next]_vars

\* ------------------------------------------------------------------------
\* Rule loader: external sources and the on-disk cache
\* ------------------------------------------------------------------------
\* how a fetch can go: httpClientFunc fails, client.Get fails, the status is
\* not 200, os.Create fails, io.Copy fails, or everything succeeds
Outcomes == {"clientErr", "getErr", "non200", "createErr", "copyErr", "ok"}

\* the bodies a URL can serve
Bodies == {"v1", "v2"}

\* downloadWithClient: returns the cache file path or an error; file is the
\* content of the cache file afterwards, http the requests issued
downloadWithClient(file, body, outcome) ==
  IF outcome \in {"getErr", "non200"}
  THEN [path |-> file # "none", err |-> file = "none", file |-> file, http |-> 1]
  ELSE IF outcome = "createErr"
  THEN [path |-> FALSE, err |-> TRUE, file |-> file, http |-> 1]
  ELSE IF outcome = "copyErr"
  THEN [path |-> FALSE, err |-> TRUE, file |-> "partial", http |-> 1]
  ELSE [path |-> TRUE, err |-> FALSE, file |-> body, http |-> 1]

\* variant: the cacheOnly parameter is not consulted
downloadAndCacheFileAlwaysFetch(file, body, co, outcome) ==
  IF outcome = "clientErr"
  THEN [path |-> file # "none", err |-> file = "none", file |-> file, http |-> 0,
        branch |-> "network"]
  ELSE downloadWithClient(file, body, outcome) @@ [branch |-> "network"]

\* downloadAndCacheFile(downloadURL, cacheOnly, httpClientFunc) on a cache
\* file with content file ("none": no file) and a remote serving body
downloadAndCacheFile(file, body, co, outcome) ==
  IF co
  THEN [path |-> file # "none", err |-> file = "none", file |-> file, http |-> 0,
        branch |-> "cache-only"]
  ELSE IF outcome = "clientErr"
  THEN [path |-> file # "none", err |-> file = "none", file |-> file, http |-> 0,
        branch |-> "network"]
  ELSE downloadWithClient(file, body, outcome) @@ [branch |-> "network"]

\* LoadConfig(configPath, cacheManager, cacheOnly): the mode preParseRuleLists
\* is called with
LoadConfig(co) == co

\* NewConfigManager / main: LoadConfig(configPath, cacheManager, true)
StartupLoad ==
  /\ ldPc = "boot"
  /\ ldPc' = "loading"
  /\ cacheOnly' = LoadConfig(TRUE)
  /\ ldTrigger' = "startup"
  /\ ldTodo' = ExtURLs
  /\ httpRequests' = 0
  /\ loadedFrom' = [u \in ExtURLs |-> "unset"]
  /\ lastFetch' = NoFetch
  /\ UNCHANGED << cacheFile, remote, loads >>
  /\ UNCHANGED besideLoader

\* ReloadConfig: LoadConfig(cm.configPath, cm.cache, false), whatever the
\* trigger reloadConfiguration was called with
ReloadLoad(t) ==
  /\ ldPc = "ready"
  /\ loads < MaxLoads
  /\ ldPc' = "loading"
  /\ cacheOnly' = LoadConfig(FALSE)
  /\ ldTrigger' = t
  /\ ldTodo' = ExtURLs
  /\ httpRequests' = 0
  /\ loadedFrom' = [u \in ExtURLs |-> "unset"]
  /\ loads' = loads + 1
  /\ lastFetch' = NoFetch
  /\ UNCHANGED << cacheFile, remote >>
  /\ UNCHANGED besideLoader

\* loadExternalRuleList for source u: loadExternalRules downloads (or finds
\* the cache file) and reads the file; on error the source is logged and
\* contributes nothing
LoadSource(u, outcome) ==
  /\ ldPc = "loading"
  /\ u \in ldTodo
  /\ LET d == downloadAndCacheFile(cacheFile[u], remote[u], cacheOnly, outcome)
     IN /\ cacheFile' = [cacheFile EXCEPT ![u] = d.file]
        /\ httpRequests' = httpRequests + d.http
        /\ loadedFrom' = [loadedFrom EXCEPT ![u] = IF d.err THEN "skipped" ELSE d.file]
        /\ lastFetch' = [url |-> u, cacheOnly |-> cacheOnly, branch |-> d.branch,
                         hadCache |-> cacheFile[u] # "none", before |-> cacheFile[u],
                         outcome |-> IF cacheOnly THEN "none" ELSE outcome,
                         path |-> d.path, err |-> d.err]
  /\ ldTodo' = ldTodo \ {u}
  /\ UNCHANGED << ldPc, cacheOnly, ldTrigger, remote, loads >>
  /\ UNCHANGED besideLoader

\* wg.Wait() returns for the last rule: the load is complete
FinishLoad ==
  /\ ldPc = "loading"
  /\ ldTodo = {}
  /\ ldPc' = "ready"
  /\ UNCHANGED << cacheOnly, ldTrigger, ldTodo, cacheFile, remote, httpRequests,
                  loadedFrom, lastFetch, loads >>
  /\ UNCHANGED besideLoader

\* environment: the list published at u changes
RemoteChange(u, b) ==
  /\ remote[u] # b
  /\ remote' = [remote EXCEPT ![u] = b]
  /\ UNCHANGED << ldPc, cacheOnly, ldTrigger, ldTodo, cacheFile, httpRequests,
                  loadedFrom, lastFetch, loads >>
  /\ UNCHANGED besideLoader

\* the process starts with whatever cache files earlier runs left
InitLoad ==
  /\ InitDispatch
  /\ ClientIdle
  /\ RefreshIdle
  /\ TasksIdle
  /\ TickerIdle
  /\ ParseIdle
  /\ dnsUp = TRUE
  /\ ldPc = "boot"
  /\ cacheOnly = TRUE
  /\ ldTrigger = "none"
  /\ ldTodo = {}
  /\ cacheFile \in [ExtURLs -> {"none", "v1"}]
  /\ remote \in [ExtURLs -> Bodies]
  /\ httpRequests = 0
  /\ loadedFrom = [u \in ExtURLs |-> "unset"]
  /\ lastFetch = NoFetch
  /\ loads = 0
  /\ EvalIdle
  /\ DialIdle
  /\ TunnelIdle
  /\ ShutdownIdle

NextLoad ==
  \/ StartupLoad
  \/ \E t \in Triggers : ReloadLoad(t)
  \/ \E u \in ExtURLs, o \in Outcomes : LoadSource(u, o)
  \/ FinishLoad
  \/ \E u \in ExtURLs, b \in Bodies : RemoteChange(u, b)

SpecLoad == InitLoad /\ [][NextLoad]_vars

\* ------------------------------------------------------------------------
\* Properties of the dispatcher and the supervisor (specification Spec)
\* ------------------------------------------------------------------------
InFlight(i) == req[i].pc \in {"accepted", "snap", "decided", "serving", "tunnel"}

\* C1: every decision getProxyDecision returns, from a decision cache or
\* freshly computed, equals what evaluateRules returns for the request's
\* (host, full URL) on the ruleset of the decision engine.
C1_DecisionEqualsEvaluation ==
  \A i \in Slots : req[i].pc = "decided" => req[i].decision = req[i].expected

C3_OneRulesetPerRequest ==
  \A i \in Slots : req[i].pc = "decided" => req[i].config = req[i].decidedBy

\* C4: a request accepted before a reload began does not have its connection
\* closed by the supervisor.
C4_ReloadKeepsInFlightRequests ==
  \A i \in Slots : (req[i].pc # "idle" /\ req[i].epoch < reloads) => ~req[i].connClosed

\* C5: a request whose descriptor is "#" is answered 403 and nothing is dialed
\* for it, neither the target nor an upstream proxy; dialContext itself
\* dials nothing for "#".
C5_BlockedIs403NoDial ==
  /\ \A i \in Slots :
       req[i].proxyURL = "#" =>
         /\ req[i].pc = "done"
         /\ req[i].status = 403
         /\ req[i].dialed = "none"
         /\ ~req[i].hijacked
  /\ dialContext("#") = "none"

\* a CONNECT to b.test:443 answered 403
C5_Witness ==
  \E i \in Slots :
    /\ req[i].pc = "done"
    /\ req[i].proxyURL = "#"
    /\ req[i].status = 403
    /\ Requests[req[i].r].connect

\* C6: a request whose decision names a key that is not in the Proxies map of
\* the ruleset the handler holds is answered 500, dials nothing, and the
\* listeners and the process are as they were.
C6_UnknownKeyIs500 ==
  [][\A i \in Slots :
       (/\ req[i].pc = "decided"
        /\ ~ProxyExists(req[i].config, req[i].decision.Proxy)
        /\ req'[i].pc # "decided")
       => /\ req'[i].pc = "done"
          /\ req'[i].status = 500
          /\ req'[i].dialed = "none"
          /\ req'[i].proxyURL = NoProxy
          /\ servers' = servers
          /\ crashed' = crashed]_vars

\* the CONNECT to b.test:443 fired the negated rule of ruleset 2, whose key
\* "ghost" is in no Proxies map: answered 500 with a listener still up
C6_Witness ==
  \E i \in Slots :
    /\ req[i].pc = "done"
    /\ req[i].status = 500
    /\ req[i].r = 3
    /\ ~crashed
    /\ \E s \in 1..Len(servers) : Listening(s)

\* C7: a reload that fails leaves the live ruleset, the decision engine and
\* its caches, the listeners and the ticker exactly as they were.
C7_FailedReloadChangesNothing ==
  [][(supPc = "reloading" /\ supPc' = "idle")
       => UNCHANGED << cmConfig, decisionConfig, hostCache, urlCache, ipCache, globCache,
                       cidrCache, dnsCache, currentConfig, currentListenAddr,
                       currentServer, servers, pendingStart, tickerHours, crashed,
                       req >>]_vars

\* after a failed reload a request is decided by the ruleset that was live
\* before it, on the listener that was up before it
C7_Witness ==
  /\ lastReload = "failed"
  /\ reloads = 1
  /\ cmConfig = 1
  /\ \E i \in Slots :
       /\ req[i].pc = "decided"
       /\ req[i].epoch = 1
       /\ req[i].decidedBy = 1
       /\ Listening(req[i].srv)

\* C10: when the bind of the new address fails after an address-change reload
\* the process keeps running and a listener is still bound.
C10_BindFailureKeepsListener ==
  bindFail = "reload" => (~crashed /\ \E s \in 1..Len(servers) : Listening(s))

\* ------------------------------------------------------------------------
\* Properties of the rule loader (specification SpecLoad)
\* ------------------------------------------------------------------------
FetchFailures == {"clientErr", "getErr", "non200", "createErr", "copyErr"}

\* C8: when the fetch of an external rule URL fails (client error, status
\* other than 200, failure writing the body to the cache file) and a cache
\* file existed before the attempt, downloadAndCacheFile returns the cache
\* path without error and the rule is loaded with the content cached before.
C8_FailedFetchUsesCache ==
  (/\ lastFetch.branch = "network"
   /\ lastFetch.outcome \in FetchFailures
   /\ lastFetch.hadCache)
  => /\ lastFetch.path
     /\ ~lastFetch.err
     /\ loadedFrom[lastFetch.url] = lastFetch.before

\* C9: the initial load runs with cacheOnly = true, issues no HTTP request
\* and skips a source that has no cache file; a reload, whatever triggered
\* it, runs with cacheOnly = false and takes the network path for each source
\* (an HTTP request whenever a client could be obtained).
C9_StartupCacheOnlyReloadFetches ==
  /\ ldTrigger = "startup" =>
       /\ cacheOnly
       /\ httpRequests = 0
       /\ \A u \in ExtURLs \ ldTodo :
            loadedFrom[u] = IF cacheFile[u] = "none" THEN "skipped" ELSE cacheFile[u]
       /\ lastFetch.url # "none" => lastFetch.branch = "cache-only"
  /\ ldTrigger \in Triggers =>
       /\ ~cacheOnly
       /\ \A u \in ExtURLs \ ldTodo : loadedFrom[u] # "unset"
       /\ lastFetch.url # "none" =>
            /\ lastFetch.branch = "network"
            /\ lastFetch.outcome # "clientErr" => httpRequests >= 1

\* a timer-triggered reload, the first after the initial load, has fetched
\* every source over HTTP
C9_Witness ==
  /\ ldTrigger = "Periodic update"
  /\ ldPc = "ready"
  /\ loads = 1
  /\ ~cacheOnly
  /\ httpRequests = Cardinality(ExtURLs)
  /\ lastFetch.outcome = "ok"

EvalURLLists == { <<>>, <<"http://a.test/x*">> }
EvalHostLists == { <<>>, <<"a.test">> }
EvalIpLists == { <<>>, <<"10.0.0.0/8">>, <<"b.test", "10.0.0.0/8">> }

\* the requests handed to the evaluation: those of the dispatcher and one
\* whose host is an address literal
EvalRequests ==
  {[host |-> Requests[k].host, url |-> Requests[k].url] : k \in ReqIds}
    \cup {[host |-> "10.0.0.9", url |-> "http://10.0.0.9/"]}

EvalDefault == "dflt"

\* rule k of an evaluated ruleset: key and name follow the position, every
\* second rule is unnamed
EvalRule(k, urls, hosts, ips, not) ==
  Rule(IF k % 2 = 0 THEN "" ELSE "r" \o ToString(k), "p" \o ToString(k), not, urls, hosts, ips)

EvalRuleName(k) == IF k % 2 = 0 THEN "unnamed rule" ELSE "r" \o ToString(k)

EvalShapes == EvalURLLists \X EvalHostLists \X EvalIpLists \X BOOLEAN

EvalRulesets ==
  UNION { { [k \in 1..n |-> EvalRule(k, f[k][1], f[k][2], f[k][3], f[k][4])] :
              f \in [1..n -> EvalShapes] } : n \in 0..MaxRules }

\* a ruleset, a request, the resolver state and the DNS cache are chosen
InitEval ==
  /\ InitDispatch
  /\ ClientIdle
  /\ RefreshIdle
  /\ TasksIdle
  /\ TickerIdle
  /\ ParseIdle
  /\ dnsUp = TRUE
  /\ LoaderIdle
  /\ DialIdle
  /\ TunnelIdle
  /\ ShutdownIdle
  /\ evIn \in [rules : EvalRulesets, host : {r.host : r \in EvalRequests},
               url : {r.url : r \in EvalRequests}, up : BOOLEAN, dc : SUBSET HostNames]
  /\ [host |-> evIn.host, url |-> evIn.url] \in EvalRequests
  /\ evPc = "input"
  /\ evOut = NoResult
  /\ evTwin = [k |-> 0, pos |-> NoResult, neg |-> NoResult]

\* evaluateRules on rules with the input of the state
EvalOn(rules) ==
  EvalRulesFrom(rules, EvalDefault, 1, evIn.host, evIn.url, evIn.dc, {}, evIn.up).res

\* d.evaluateRules(host, fullURL) on the chosen ruleset
Evaluate ==
  /\ evPc = "input"
  /\ evPc' = "done"
  /\ evOut' = EvalOn(evIn.rules)
  /\ UNCHANGED << evIn, evTwin >>
  /\ UNCHANGED besideEval

\* evaluateRules on rule k alone, once with not = false and once with
\* not = true
EvaluateTwin(k) ==
  /\ evPc = "input"
  /\ k \in 1..Len(evIn.rules)
  /\ evPc' = "twin"
  /\ evTwin' = [k |-> k,
                pos |-> EvalOn(<< [evIn.rules[k] EXCEPT !.Not = FALSE] >>),
                neg |-> EvalOn(<< [evIn.rules[k] EXCEPT !.Not = TRUE] >>)]
  /\ UNCHANGED << evIn, evOut >>
  /\ UNCHANGED besideEval

NextEval ==
  \/ Evaluate
  \/ \E k \in 1..MaxRules : EvaluateTwin(k)

SpecEval == InitEval /\ [][NextEval]_vars

\* rule k of the chosen ruleset fires on the chosen input
EvFires(k) == RuleEval(evIn.rules[k], evIn.host, evIn.url, evIn.dc, {}, evIn.up).fires
EvFiring == {k \in 1..Len(evIn.rules) : EvFires(k)}
EvFirst == CHOOSE k \in EvFiring : \A j \in EvFiring : k <= j

\* C12: evaluateRules returns the key and the name of the first rule, in
\* configured order, that fires, and {default key, "default", "default"}
\* exactly when no rule fires.
C12_FirstFiringRuleWins ==
  evPc = "done" =>
    IF EvFiring = {}
    THEN evOut = Result(EvalDefault, "default", "default")
    ELSE /\ evOut.Proxy = evIn.rules[EvFirst].Proxy
         /\ evOut.RuleName = EvalRuleName(EvFirst)
         /\ evOut # Result(EvalDefault, "default", "default")

\* both rules of a ruleset fire and the first one is returned
C12_Witness ==
  /\ evPc = "done"
  /\ EvFiring = {1, 2}
  /\ ~evIn.rules[1].Not
  /\ evIn.rules[2].Not
  /\ evOut.Proxy = "p1"
  /\ evOut.RuleName = "r1"

EvDefaultResult == Result(EvalDefault, "default", "default")
EvPatterns(rule) == Len(rule.parsedURLs) + Len(rule.parsedHosts) + Len(rule.parsedIps)

\* C13: for a rule with at least one pattern and any input, the rule with
\* not = true fires exactly when the otherwise identical rule with
\* not = false does not fire on that input.
C13_NegatedFiresIffPlainDoesNot ==
  (evPc = "twin" /\ EvPatterns(evIn.rules[evTwin.k]) > 0) =>
    ((evTwin.neg # EvDefaultResult) <=> (evTwin.pos = EvDefaultResult))

\* a rule matching by address fires plain and, negated, lets the default
\* through; its patterns include a hostname
C13_Witness ==
  /\ evPc = "twin"
  /\ evIn.rules[evTwin.k].parsedIps = <<"b.test", "10.0.0.0/8">>
  /\ evIn.rules[evTwin.k].parsedURLs = <<>>
  /\ evTwin.pos.MatchType = "ip"
  /\ evTwin.neg = EvDefaultResult

\* C14: a rule whose urls, hosts and ips lists are all empty never fires with
\* not = false and fires on every request with not = true, alone or in a
\* ruleset.
C14_PatternlessRule ==
  /\ (evPc = "twin" /\ EvPatterns(evIn.rules[evTwin.k]) = 0) =>
       /\ evTwin.pos = EvDefaultResult
       /\ evTwin.neg = Result(evIn.rules[evTwin.k].Proxy, EvalRuleName(evTwin.k), "")
  /\ evPc = "done" =>
       \A k \in 1..Len(evIn.rules) :
         EvPatterns(evIn.rules[k]) = 0 =>
           IF evIn.rules[k].Not
           THEN /\ evOut # EvDefaultResult
                /\ \E j \in 1..k : evOut.Proxy = evIn.rules[j].Proxy
           ELSE evOut.Proxy # evIn.rules[k].Proxy

\* the patternless rule alone, on the request for an address literal
C14_Witness ==
  /\ evPc = "twin"
  /\ EvPatterns(evIn.rules[evTwin.k]) = 0
  /\ evIn.host = "10.0.0.9"
  /\ evTwin.neg.MatchType = ""
  /\ evTwin.neg.Proxy = "p1"

\* the name cannot be resolved on the chosen input
EvUnresolvable(h) ==
  /\ ~IsIPLiteral(h)
  /\ h \notin evIn.dc
  /\ ~(evIn.up /\ DnsAnswer(h) # {})

EvWithoutIps(rules) == [k \in 1..Len(rules) |-> [rules[k] EXCEPT !.parsedIps = <<>>]]

EvKeepsPattern(t) == GetCIDRNetOk(t) \/ ~EvUnresolvable(t)
EvWithoutFailedPatterns(rules) ==
  [k \in 1..Len(rules) |-> [rules[k] EXCEPT !.parsedIps = SelectSeq(@, EvKeepsPattern)]]

\* C15: when the request host cannot be resolved the ip category of every
\* rule counts as not matched, and a hostname pattern that cannot be resolved
\* counts as not matching; negation and the following rules are evaluated as
\* usual and a decision is returned in every case.
C15_DnsFailureIsNoMatch ==
  evPc = "done" =>
    /\ EvUnresolvable(evIn.host) => evOut = EvalOn(EvWithoutIps(evIn.rules))
    /\ evOut = EvalOn(EvWithoutFailedPatterns(evIn.rules))
    /\ evOut.MatchType \in {"url", "host", "ip", "", "default"}
    /\ evOut.Proxy \in {EvalDefault} \cup {evIn.rules[k].Proxy : k \in 1..Len(evIn.rules)}

\* the host cannot be resolved: rule 1, which has only ip patterns, does not
\* fire and the negated rule 2 decides
C15_Witness ==
  /\ evPc = "done"
  /\ EvUnresolvable(evIn.host)
  /\ Len(evIn.rules) = 2
  /\ EvPatterns(evIn.rules[1]) = Len(evIn.rules[1].parsedIps)
  /\ Len(evIn.rules[1].parsedIps) = 2
  /\ ~evIn.rules[1].Not
  /\ evIn.rules[2].Not
  /\ Len(evIn.rules[2].parsedIps) > 0
  /\ evOut = Result("p2", "unnamed rule", "")


\* ---------------------------------------------------------------------------
\* ProxyHandler.dialContext on its own: a descriptor, a target address and a
\* behaviour of the network are chosen, then the call runs
\* ---------------------------------------------------------------------------

DialAddrs == {"a.test:80", "b.test:443"}

InitDial ==
  /\ InitDispatch
  /\ ClientIdle
  /\ RefreshIdle
  /\ TasksIdle
  /\ TickerIdle
  /\ ParseIdle
  /\ dnsUp = TRUE
  /\ LoaderIdle
  /\ EvalIdle
  /\ TunnelIdle
  /\ ShutdownIdle
  /\ dlIn \in [hasValue : BOOLEAN, p : Descriptors, addr : DialAddrs, env : DialEnvs]
  /\ dlPc = "ready"
  /\ dlOut = NoDial

\* goproxy's transport calls dialContext
DialContext ==
  /\ dlPc = "ready"
  /\ dlOut' = dialContextResult(dlIn.hasValue, dlIn.p, dlIn.addr, dlIn.env)
  /\ dlPc' = "done"
  /\ UNCHANGED dlIn
  /\ UNCHANGED besideDial

NextDial == DialContext

SpecDial == InitDial /\ [][NextDial]_vars

\* what the call dialed: nothing, the target itself, or the upstream
DialedNothing == dlOut.dials = <<>>
DialedTarget == dlOut.dials = << DialOf("tcp", dlIn.addr, "", "", "") >>
DialedUpstreamTCP(host) == dlOut.dials = << DialOf("tcp", host, "", "", "") >>
DialedSOCKS5(host, user, pass) ==
  dlOut.dials = << DialOf("socks5", host, dlIn.addr, user, pass) >>

\* C16: dialContext maps the descriptor to exactly one action: the empty
\* descriptor dials the target directly, "#" returns the blocked error without
\* dialing, a socks5 or socks5h descriptor connects through the SOCKS5
\* upstream, an http or https descriptor connects to the upstream and issues
\* CONNECT, and any other scheme returns the unsupported-scheme error without
\* dialing.
C16_DescriptorSelectsOneAction ==
  (dlPc = "done" /\ dlIn.hasValue) =>
    /\ dlIn.p = "" => DialedTarget /\ dlOut.sent = ""
    /\ dlIn.p = "#" =>
         /\ DialedNothing
         /\ dlOut.err = "connection blocked by proxy configuration"
    /\ dlIn.p = "socks5://s:1080" => DialedSOCKS5("s:1080", "", "") /\ dlOut.sent = ""
    /\ dlIn.p = "socks5h://user:pw@s:1080" =>
         DialedSOCKS5("s:1080", "user", "pw") /\ dlOut.sent = ""
    /\ dlIn.p \in {"http://up:3128", "HTTP://up:3128", "https://user:pw@up:3128",
                   "http://user@up:3128"} =>
         /\ DialedUpstreamTCP("up:3128")
         /\ (dlIn.env.upstreamUp /\ dlIn.env.writeOk) =>
              \E rest \in {"\r\n", "Proxy-Authorization: Basic dXNlcjpwdw==\r\n\r\n",
                           "Proxy-Authorization: Basic dXNlcjo=\r\n\r\n"} :
                dlOut.sent = "CONNECT " \o dlIn.addr \o " HTTP/1.1\r\nHost: "
                               \o dlIn.addr \o "\r\n" \o rest
    /\ dlIn.p \in {"ftp://f:21", "up:3128"} =>
         /\ DialedNothing
         /\ dlOut.err = "unsupported proxy scheme"
         /\ dlOut.conn = "none"

\* an unsupported scheme was refused without a dial while the target was
\* reachable
C16_Witness ==
  /\ dlPc = "done"
  /\ dlIn.hasValue
  /\ dlIn.p = "ftp://f:21"
  /\ dlIn.env.targetUp
  /\ dlOut.err = "unsupported proxy scheme"
  /\ dlOut.dials = <<>>

\* the descriptors of an HTTP upstream, without and with userinfo
HTTPPlain == {"http://up:3128", "HTTP://up:3128"}
HTTPWithUser == {"https://user:pw@up:3128", "http://user@up:3128"}

\* the Proxy-Authorization line expected for a descriptor: base64 of
\* "user:pw" is dXNlcjpwdw==, of "user:" is dXNlcjo=
ExpectedAuthLine(p) ==
  CASE p = "https://user:pw@up:3128" -> "Proxy-Authorization: Basic dXNlcjpwdw==\r\n"
    [] p = "http://user@up:3128" -> "Proxy-Authorization: Basic dXNlcjo=\r\n"
    [] OTHER -> ""

\* C17: for an http or https upstream the bytes sent to the upstream are
\* exactly "CONNECT <target> HTTP/1.1\r\nHost: <target>\r\n", then a
\* "Proxy-Authorization: Basic <base64(user:pass)>" line if and only if the
\* descriptor carries userinfo, then a blank line; the stream is returned only
\* if the upstream answers with status 200, otherwise an error is returned and
\* the upstream connection is closed.
C17_ConnectHandshake ==
  (/\ dlPc = "done"
   /\ dlIn.hasValue
   /\ dlIn.p \in HTTPPlain \cup HTTPWithUser
   /\ dlIn.env.upstreamUp) =>
    /\ dlIn.env.writeOk =>
         dlOut.sent = "CONNECT " \o dlIn.addr \o " HTTP/1.1\r\nHost: " \o dlIn.addr
                        \o "\r\n" \o ExpectedAuthLine(dlIn.p) \o "\r\n"
    /\ dlOut.conn # "none" => (dlIn.env.status = 200 /\ dlOut.err = "" /\ ~dlOut.closed)
    /\ (dlIn.env.writeOk /\ dlIn.env.status = 200) => dlOut.conn = "upstream"
    /\ dlIn.env.status # 200 =>
         (dlOut.conn = "none" /\ dlOut.err # "" /\ dlOut.closed)

\* an upstream asked with credentials answered 407: the request carried the
\* authorization line, an error came back and the connection was closed
C17_Witness ==
  /\ dlPc = "done"
  /\ dlIn.hasValue
  /\ dlIn.p = "https://user:pw@up:3128"
  /\ dlIn.addr = "b.test:443"
  /\ dlIn.env.upstreamUp
  /\ dlIn.env.writeOk
  /\ dlIn.env.status = 407
  /\ dlOut.sent = "CONNECT b.test:443 HTTP/1.1\r\nHost: b.test:443\r\nProxy-Authorization: Basic dXNlcjpwdw==\r\n\r\n"
  /\ dlOut.err = "proxy CONNECT failed with status"
  /\ dlOut.closed

\* ---------------------------------------------------------------------------
\* ProxyHandler.handleHTTPS: one CONNECT request from getProxyDialer to the
\* return of the handler, with the client and the target as environment
\* ---------------------------------------------------------------------------

\* what getProxyDialer returns: an error, the block descriptor's key, a nil
\* dialer for an unknown key, or a dialer
DialerOutcomes == {"err", "blocked", "nil", "dialer"}

\* what w.(http.Hijacker) and Hijack() do
HijackOutcomes == {"ok", "unsupported", "fail"}

InitTunnel ==
  /\ InitDispatch
  /\ ClientIdle
  /\ RefreshIdle
  /\ TasksIdle
  /\ TickerIdle
  /\ ParseIdle
  /\ dnsUp = TRUE
  /\ LoaderIdle
  /\ EvalIdle
  /\ DialIdle
  /\ ShutdownIdle
  /\ tnIn \in [dialer : DialerOutcomes, dialOk : BOOLEAN, hijack : HijackOutcomes]
  /\ tn = [NoTunnel EXCEPT !.pc = "start"]

\* w.WriteHeader(code), and the header part of http.Error(w, text, code): the
\* first status written is the one the client gets
WriteHeader(t, code) ==
  IF t.sent = << >> THEN [t EXCEPT !.sent = << code >>] ELSE t

\* handleHTTPS up to the dial: answer 500 for a getProxyDialer error, 403 for
\* the block descriptor, 500 for a nil dialer
GetDialer ==
  /\ tn.pc = "start"
  /\ tn' = CASE tnIn.dialer = "err" -> [WriteHeader(tn, 500) EXCEPT !.pc = "returned"]
             [] tnIn.dialer = "blocked" -> [WriteHeader(tn, 403) EXCEPT !.pc = "returned"]
             [] tnIn.dialer = "nil" -> [WriteHeader(tn, 500) EXCEPT !.pc = "returned"]
             [] OTHER -> [tn EXCEPT !.pc = "dial"]
  /\ UNCHANGED tnIn
  /\ UNCHANGED besideTunnel

\* the dial, were the success status written before its outcome is known
handleHTTPSDialReplyFirst(t, ok) ==
  IF ok
    THEN [WriteHeader(t, 200) EXCEPT !.stream = TRUE, !.targetSock = "open",
                                     !.pc = "reply"]
  ELSE [WriteHeader(WriteHeader(t, 200), 502) EXCEPT !.dialFailed = TRUE,
                                                     !.pc = "returned"]

\* targetConn, err := dialer.Dial("tcp", r.Host): 502 and return on an error
handleHTTPSDial(t, ok) ==
  IF ok
    THEN [t EXCEPT !.stream = TRUE, !.targetSock = "open", !.pc = "reply"]
  ELSE [WriteHeader(t, 502) EXCEPT !.dialFailed = TRUE, !.pc = "returned"]

TunnelDial ==
  /\ tn.pc = "dial"
  /\ tn' = handleHTTPSDial(tn, tnIn.dialOk)
  /\ UNCHANGED tnIn
  /\ UNCHANGED besideTunnel

\* w.WriteHeader(http.StatusOK)
TunnelReply ==
  /\ tn.pc = "reply"
  /\ tn' = [WriteHeader(tn, 200) EXCEPT !.pc = "hijack"]
  /\ UNCHANGED tnIn
  /\ UNCHANGED besideTunnel

\* the hijack: without a hijacker, or when Hijack fails, http.Error(500) and
\* return, which runs the deferred targetConn.Close(); otherwise the client
\* socket is the handler's and the two copies start
TunnelHijack ==
  /\ tn.pc = "hijack"
  /\ tn' = IF tnIn.hijack = "ok"
             THEN [tn EXCEPT !.clientSock = "hijacked", !.pumpC2T = "running",
                             !.pumpT2C = "running", !.pc = "splice"]
           ELSE [WriteHeader(tn, 500) EXCEPT !.targetSock = "closed", !.pc = "returned"]
  /\ UNCHANGED tnIn
  /\ UNCHANGED besideTunnel

\* the goroutine's io.Copy(targetConn, clientConn): a Read of the client
\* socket returns an error once the handler closed it, the waiting bytes when
\* there are some, EOF when the client has closed, and blocks otherwise; the
\* Write to the target fails once the socket is closed here, and may succeed
\* or fail once the target has closed
PumpC2T(writeOk) ==
  /\ tn.pumpC2T = "running"
  /\ \/ /\ tn.clientSock = "closed"
        /\ writeOk
        /\ tn' = [tn EXCEPT !.pumpC2T = "stopped"]
     \/ /\ tn.clientSock # "closed"
        /\ tn.c2t
        /\ writeOk => tn.targetSock = "open"
        /\ ~writeOk => (tn.targetSock # "open" \/ tn.targetPeer = "closed")
        /\ tn' = [tn EXCEPT !.c2t = FALSE,
                            !.pumpC2T = IF writeOk THEN "running" ELSE "stopped"]
     \/ /\ tn.clientSock # "closed"
        /\ ~tn.c2t
        /\ tn.clientPeer = "closed"
        /\ writeOk
        /\ tn' = [tn EXCEPT !.pumpC2T = "stopped"]
  /\ UNCHANGED tnIn
  /\ UNCHANGED besideTunnel

\* the handler's io.Copy(clientConn, targetConn): a Read of the target socket
\* returns the waiting bytes when there are some, EOF when the target has
\* closed, and blocks otherwise; the Write to the client succeeds while the
\* client is connected and may succeed or fail once it has closed
PumpT2C(writeOk) ==
  /\ tn.pc = "splice"
  /\ tn.pumpT2C = "running"
  /\ \/ /\ tn.t2c
        /\ ~writeOk => tn.clientPeer = "closed"
        /\ tn' = [tn EXCEPT !.t2c = FALSE,
                            !.pumpT2C = IF writeOk THEN "running" ELSE "stopped"]
     \/ /\ ~tn.t2c
        /\ tn.targetPeer = "closed"
        /\ writeOk
        /\ tn' = [tn EXCEPT !.pumpT2C = "stopped"]
  /\ UNCHANGED tnIn
  /\ UNCHANGED besideTunnel

\* handleHTTPS returns once its own copy has returned; the deferred
\* clientConn.Close() and targetConn.Close() run
HandlerReturn ==
  /\ tn.pc = "splice"
  /\ tn.pumpT2C = "stopped"
  /\ tn' = [tn EXCEPT !.clientSock = "closed", !.targetSock = "closed",
                      !.pc = "returned"]
  /\ UNCHANGED tnIn
  /\ UNCHANGED besideTunnel

\* environment: the client sends bytes through the tunnel
ClientSends ==
  /\ tn.pc = "splice"
  /\ tn.clientPeer = "open"
  /\ ~tn.c2t
  /\ tn' = [tn EXCEPT !.c2t = TRUE]
  /\ UNCHANGED tnIn
  /\ UNCHANGED besideTunnel

\* environment: the target sends bytes through the tunnel
TargetSends ==
  /\ tn.pc = "splice"
  /\ tn.targetPeer = "open"
  /\ ~tn.t2c
  /\ tn' = [tn EXCEPT !.t2c = TRUE]
  /\ UNCHANGED tnIn
  /\ UNCHANGED besideTunnel

\* environment: the client closes its connection
ClientCloses ==
  /\ tn.pc = "splice"
  /\ tn.clientPeer = "open"
  /\ tn' = [tn EXCEPT !.clientPeer = "closed"]
  /\ UNCHANGED tnIn
  /\ UNCHANGED besideTunnel

\* environment: the target closes its connection
TargetCloses ==
  /\ tn.pc = "splice"
  /\ tn.targetPeer = "open"
  /\ tn' = [tn EXCEPT !.targetPeer = "closed"]
  /\ UNCHANGED tnIn
  /\ UNCHANGED besideTunnel

\* the steps the dispatcher itself can take on a tunnel
TunnelDispatcherStep ==
  \/ \E writeOk \in BOOLEAN : PumpC2T(writeOk)
  \/ \E writeOk \in BOOLEAN : PumpT2C(writeOk)
  \/ HandlerReturn

NextTunnel ==
  \/ GetDialer
  \/ TunnelDial
  \/ TunnelReply
  \/ TunnelHijack
  \/ \E writeOk \in BOOLEAN : PumpC2T(writeOk)
  \/ \E writeOk \in BOOLEAN : PumpT2C(writeOk)
  \/ HandlerReturn
  \/ ClientSends
  \/ TargetSends
  \/ ClientCloses
  \/ TargetCloses

SpecTunnel == InitTunnel /\ [][NextTunnel]_vars

\* C18: on the CONNECT path the client is sent the 200 success status only
\* after the stream to the target has been obtained; if obtaining the stream
\* fails the client never receives 200 and receives an error status instead.
C18_SuccessStatusAfterStream ==
  /\ (\E k \in DOMAIN tn.sent : tn.sent[k] = 200) => tn.stream
  /\ tn.dialFailed => (tn.sent = << 502 >> /\ ~tn.stream /\ tn.pc = "returned")

\* the dial failed and the handler returned after answering 502
C18_Witness ==
  /\ tn.pc = "returned"
  /\ tn.dialFailed
  /\ tn.sent = << 502 >>

\* C19: once a CONNECT tunnel is spliced, as soon as either the client side or
\* the target side closes its connection, both byte pumps stop and both the
\* client socket and the upstream socket are closed by the dispatcher, even if
\* the other side stays open and idle.  Stated on the states where a side has
\* closed and the dispatcher has no step left to take on its own: there both
\* pumps have stopped and both sockets are closed.
C19_EitherCloseClosesBoth ==
  (/\ tn.pumpC2T # "none"
   /\ tn.clientPeer = "closed" \/ tn.targetPeer = "closed"
   /\ ~ENABLED TunnelDispatcherStep) =>
    /\ tn.pumpC2T = "stopped"
    /\ tn.pumpT2C = "stopped"
    /\ tn.clientSock = "closed"
    /\ tn.targetSock = "closed"

\* the target closed a spliced tunnel and the dispatcher closed both sockets
C19_TargetCloseClosesBoth ==
  /\ tn.targetPeer = "closed"
  /\ tn.clientPeer = "open"
  /\ tn.pc = "returned"
  /\ tn.pumpC2T = "stopped"
  /\ tn.clientSock = "closed"
  /\ tn.targetSock = "closed"

\* ---------------------------------------------------------------------------
\* Shutdown: main from trayManager.Start() to its return, the event loop of
\* main.go:132-159, the tray, and the signals the process is sent
\* ---------------------------------------------------------------------------

\* signals delivered to the process in one run
MaxSignals == 3

Signals == {"SIGHUP", "SIGINT", "SIGTERM"}
TermSignals == {"SIGINT", "SIGTERM"}

\* the two builds of package tray
Builds == {"linux", "other"}

InitShutdown ==
  /\ InitDispatch
  /\ ClientIdle
  /\ RefreshIdle
  /\ TasksIdle
  /\ TickerIdle
  /\ ParseIdle
  /\ dnsUp = TRUE
  /\ LoaderIdle
  /\ EvalIdle
  /\ DialIdle
  /\ TunnelIdle
  /\ sd \in {[NoShutdown EXCEPT !.build = b, !.mainPc = "start"] : b \in Builds}

\* signal.Notify's delivery to a channel: the send does not block, a signal
\* that finds the buffer of one full is dropped
Notify(ch, sig) ==
  IF Len(ch) < 1 THEN Append(ch, sig) ELSE ch

\* the operating system delivers a signal to the process: to sigChan of
\* main.go:57-58, and on linux a SIGINT or SIGTERM also to the channel of the
\* tray's goroutine while that goroutine still listens
DeliverSignal(sig) ==
  /\ sd.mainPc # "exited"
  /\ sd.signals < MaxSignals
  /\ sd' = [sd EXCEPT
       !.signals = @ + 1,
       !.sigChan = Notify(@, sig),
       !.traySig = IF sd.build = "linux" /\ sig \in TermSignals /\ ~sd.trayDone
                     THEN Notify(@, sig) ELSE @,
       !.owed = @ \/ sig \in TermSignals,
       !.inReload = @ \/ (sig \in TermSignals /\ sd.loopPc = "reloading"),
       !.dropped = @ \/ (sig \in TermSignals /\ Len(sd.sigChan) >= 1)]
  /\ UNCHANGED besideShutdown

\* trayManager.Start(): empty on linux, systray.Run on the other builds, which
\* returns after systray.Quit
MainStart ==
  /\ sd.mainPc = "start"
  /\ sd' = [sd EXCEPT !.mainPc = IF sd.build = "linux" THEN "shutdown" ELSE "inStart"]
  /\ UNCHANGED besideShutdown

\* the tray's quit item is clicked: systray.Quit()
TrayQuitClick ==
  /\ sd.build = "other"
  /\ sd.mainPc = "inStart"
  /\ ~sd.systrayQuit
  /\ sd' = [sd EXCEPT !.systrayQuit = TRUE, !.owed = TRUE]
  /\ UNCHANGED besideShutdown

\* systray.Run ends after Quit: onExit closes quitChan and Start returns
SystrayExit ==
  /\ sd.mainPc = "inStart"
  /\ sd.systrayQuit
  /\ sd' = [sd EXCEPT !.quitClosed = TRUE, !.mainPc = "shutdown"]
  /\ UNCHANGED besideShutdown

\* the goroutine of the linux NewTrayManager: <-sigChan, close(tm.quitChan)
TrayGoroutine ==
  /\ sd.mainPc # "exited"
  /\ sd.build = "linux"
  /\ ~sd.trayDone
  /\ sd.traySig # << >>
  /\ sd' = [sd EXCEPT !.traySig = << >>, !.trayDone = TRUE, !.quitClosed = TRUE]
  /\ UNCHANGED besideShutdown

\* the event loop receives from sigChan: SIGHUP reloads, SIGINT and SIGTERM
\* call trayManager.Exit() (systray.Quit, nothing on linux) and end the loop
LoopSignal ==
  /\ sd.mainPc # "exited"
  /\ sd.loopPc = "select"
  /\ sd.sigChan # << >>
  /\ sd' = IF Head(sd.sigChan) = "SIGHUP"
             THEN [sd EXCEPT !.sigChan = Tail(@), !.loopPc = "reloading"]
           ELSE [sd EXCEPT !.sigChan = Tail(@), !.loopPc = "exited",
                           !.systrayQuit = @ \/ sd.build = "other"]
  /\ UNCHANGED besideShutdown

\* the event loop receives from the closed quitChan: currentServer.Close()
\* and the loop ends
LoopQuit ==
  /\ sd.mainPc # "exited"
  /\ sd.loopPc = "select"
  /\ sd.quitClosed
  /\ sd' = [sd EXCEPT !.listener = "closed", !.loopPc = "exited"]
  /\ UNCHANGED besideShutdown

\* the event loop receives from the tray's reload channel or from the ticker
LoopReload ==
  /\ sd.mainPc # "exited"
  /\ sd.loopPc = "select"
  /\ sd' = [sd EXCEPT !.loopPc = "reloading"]
  /\ UNCHANGED besideShutdown

\* reloadConfiguration returns
ReloadDone ==
  /\ sd.mainPc # "exited"
  /\ sd.loopPc = "reloading"
  /\ sd' = [sd EXCEPT !.loopPc = "select"]
  /\ UNCHANGED besideShutdown

\* main after Start: currentServer.Close() under the lock, then main returns
\* and the process exits
MainShutdown ==
  /\ sd.mainPc = "shutdown"
  /\ sd' = [sd EXCEPT !.listener = "closed", !.mainPc = "exited"]
  /\ UNCHANGED besideShutdown

\* the steps the process takes by itself, without a further signal, click or
\* tick
ShutdownProcessStep ==
  \/ MainStart
  \/ SystrayExit
  \/ TrayGoroutine
  \/ LoopSignal
  \/ LoopQuit
  \/ ReloadDone
  \/ MainShutdown

NextShutdown ==
  \/ \E sig \in Signals : DeliverSignal(sig)
  \/ MainStart
  \/ TrayQuitClick
  \/ SystrayExit
  \/ TrayGoroutine
  \/ LoopSignal
  \/ LoopQuit
  \/ LoopReload
  \/ ReloadDone
  \/ MainShutdown

SpecShutdown == InitShutdown /\ [][NextShutdown]_vars

\* C20: every SIGINT or SIGTERM delivered to the process, and every tray quit
\* signal, eventually results in the listener being stopped and the process
\* exiting, also when the signal arrives during a reload or while another
\* signal is still pending.  Stated on the states where such a signal has been
\* delivered and the process has no step left to take by itself: there the
\* listener is stopped and the process has exited.
C20_TerminationSignalShutsDown ==
  (sd.owed /\ ~ENABLED ShutdownProcessStep) =>
    (sd.mainPc = "exited" /\ sd.listener = "closed")

\* a SIGINT that arrived during a reload, with sigChan empty, was handled
\* after the reload: the listener is stopped and the process has exited
C20_SignalDuringReloadShutsDown ==
  /\ sd.build = "other"
  /\ sd.owed
  /\ sd.inReload
  /\ ~sd.dropped
  /\ sd.mainPc = "exited"
  /\ sd.listener = "closed"

\* C21: while a reload is in progress, including while the rule loader waits
\* for a network fetch, a request arriving at the dispatcher obtains its
\* ruleset snapshot and its decision without waiting for the reload to
\* finish: a handler that has been accepted can take its snapshot whatever the
\* position of the reload.
C21_RequestDoesNotWaitForReload ==
  \A i \in Slots :
    (~crashed /\ req[i].pc = "accepted" /\ supPc # "idle") => ENABLED ReqGetConfig(i)

\* a request accepted after ReloadConfig has returned, and before UpdateConfig,
\* has taken its snapshot while the reload was still going on
C21_SnapshotAfterLoadReturned ==
  \E i \in Slots :
    /\ req[i].pc = "snap"
    /\ req[i].epoch = reloads
    /\ supPc = "loaded"

\* ---------------------------------------------------------------------------
\* Configuration loading: parseStringToList, preParseRuleLists and LoadConfig.
\* A text is a sequence of pieces: the characters that the parser looks at
\* (blank, newline, comma, '#', '/', '*', '.') each on their own, and a run of
\* other characters as one piece
\* ---------------------------------------------------------------------------

\* pieces of the texts given to the list parser alone
MaxText == 4

Chars == {"a", " ", "\n", ",", "#", "/", "*", "."}

\* unicode.IsSpace on the pieces
IsSpace(ch) == ch \in {" ", "\n", "\t", "\r"}

\* strings.Index(t, m), counted from 1; 0 when m does not occur
Index(t, m) ==
  LET hits == {k \in 1..(Len(t) - Len(m) + 1) : SubSeq(t, k, k + Len(m) - 1) = m}
  IN IF hits = {} THEN 0 ELSE CHOOSE k \in hits : \A j \in hits : k <= j

\* strings.Split(input, "\n")
RECURSIVE Split(_)
Split(t) ==
  IF Index(t, << "\n" >>) = 0
    THEN << t >>
  ELSE << SubSeq(t, 1, Index(t, << "\n" >>) - 1) >>
         \o Split(SubSeq(t, Index(t, << "\n" >>) + 1, Len(t)))

\* strings.TrimSpace
RECURSIVE TrimSpace(_)
TrimSpace(t) ==
  IF t = << >> THEN t
  ELSE IF IsSpace(t[1]) THEN TrimSpace(Tail(t))
  ELSE IF IsSpace(t[Len(t)]) THEN TrimSpace(SubSeq(t, 1, Len(t) - 1))
  ELSE t

\* the earlier ParseStringToList: the line is cut at the marker whatever
\* precedes it
stripCommentAlways(line, marker) ==
  IF Index(line, marker) # 0
    THEN SubSeq(line, 1, Index(line, marker) - 1)
  ELSE line

\* parseStringToList, one marker on one line: the line is cut at the marker
\* only when nothing but blanks precedes it
stripComment(line, marker) ==
  IF Index(line, marker) # 0 /\ TrimSpace(SubSeq(line, 1, Index(line, marker) - 1)) = << >>
    THEN SubSeq(line, 1, Index(line, marker) - 1)
  ELSE line

\* the loop body of parseStringToList: "//" first, then "#", then TrimSpace
cleanLine(line) ==
  TrimSpace(stripComment(stripComment(line, << "/", "/" >>), << "#" >>))

\* strings.Join(lines, " ")
RECURSIVE Join(_)
Join(lines) ==
  IF lines = << >> THEN << >>
  ELSE IF Len(lines) = 1 THEN lines[1]
  ELSE lines[1] \o << " " >> \o Join(Tail(lines))

\* strings.ReplaceAll(t, ",", " ")
ReplaceAll(t) == [k \in 1..Len(t) |-> IF t[k] = "," THEN " " ELSE t[k]]

\* strings.Fields: the maximal runs of pieces that are not white space
RECURSIVE Fields(_)
Fields(t) ==
  IF t = << >> THEN << >>
  ELSE IF IsSpace(t[1]) THEN Fields(Tail(t))
  ELSE IF \A k \in 1..Len(t) : ~IsSpace(t[k]) THEN << t >>
  ELSE LET n == CHOOSE k \in 1..Len(t) : IsSpace(t[k]) /\ \A j \in 1..(k - 1) : ~IsSpace(t[j])
       IN << SubSeq(t, 1, n - 1) >> \o Fields(SubSeq(t, n, Len(t)))

\* strings.HasPrefix(part, "*.")
HasWildcardPrefix(part) == Len(part) >= 2 /\ part[1] = "*" /\ part[2] = "."

\* the second loop of parseStringToList: each part, followed by its base
\* domain when wildcard domains are expanded and the part begins with "*."
RECURSIVE expandParts(_, _)
expandParts(parts, expandWildcardDomains) ==
  IF parts = << >> THEN << >>
  ELSE (IF parts[1] = << >> THEN << >>
        ELSE IF expandWildcardDomains /\ HasWildcardPrefix(parts[1])
          THEN << parts[1], SubSeq(parts[1], 3, Len(parts[1])) >>
        ELSE << parts[1] >>)
       \o expandParts(Tail(parts), expandWildcardDomains)

\* parseStringToList(input, expandWildcardDomains)
parseStringToList(input, expandWildcardDomains) ==
  IF input = << >> THEN << >>
  ELSE expandParts(Fields(ReplaceAll(Join([k \in 1..Len(Split(input)) |->
                                             cleanLine(Split(input)[k])]))),
                   expandWildcardDomains)

\* the texts the list parser is tried on
Texts == UNION {[1..k -> Chars] : k \in 0..MaxText}

\* RuleBaseConfig{} of types.go:62-75, and the fields RuleConfig adds
EmptyRuleBase == [Name |-> "", Ips |-> << >>, Hosts |-> << >>, URLs |-> << >>,
                  ExternalIps |-> << >>, ExternalHosts |-> << >>,
                  ExternalURLs |-> << >>, ExternalRule |-> ""]

RuleConfig(base, proxy, not) ==
  base @@ [Proxy |-> proxy, Not |-> not,
           parsedIps |-> << >>, parsedHosts |-> << >>, parsedURLs |-> << >>]

\* the external pattern lists the rules name: a local file of hosts, a URL of
\* hosts and a local file of addresses, each named by a one-piece text
HostsFile == << "lists/a.txt" >>
HostsURL == << "http://lists/b" >>
IpsFile == << "lists/ips.txt" >>
Sources == {HostsFile, HostsURL, IpsFile}

\* what each list holds when it can be read
FileContent(source) ==
  CASE source = HostsFile -> << "#", " ", "c", "\n", "*", ".", "x.test" >>
    [] source = HostsURL -> << "y.test" >>
    [] OTHER -> << "1.1.1.1" >>

\* loadExternalRules(source, baseDir, cacheOnly, httpClientFunc): for a URL
\* downloadAndCacheFile fails when the fetch fails and no cache file exists,
\* for a path os.Stat finds no file; otherwise the content of the file
loadExternalRules(source, env) ==
  IF source \in Sources /\ env.loads[source]
    THEN [err |-> FALSE, content |-> FileContent(source)]
  ELSE [err |-> TRUE, content |-> << >>]

\* loadExternalRuleList: an error is logged and the source gives no patterns
loadExternalRuleList(url, expandWildcardDomains, env) ==
  IF url = << >> THEN << >>
  ELSE IF loadExternalRules(url, env).err THEN << >>
  ELSE parseStringToList(loadExternalRules(url, env).content, expandWildcardDomains)

\* the goroutines of one loadTask in the order they take the mutex
RECURSIVE appendLists(_, _, _)
appendLists(sources, expandWildcards, env) ==
  IF sources = << >> THEN << >>
  ELSE loadExternalRuleList(Head(sources), expandWildcards, env)
         \o appendLists(Tail(sources), expandWildcards, env)

Reverse(s) == [k \in 1..Len(s) |-> s[Len(s) + 1 - k]]

\* one loadTask, were a source that fails to load to discard the task
loadTaskStopsAtFailure(sources, expandWildcards, env) ==
  IF \E k \in 1..Len(sources) : loadExternalRules(sources[k], env).err
    THEN << >>
  ELSE appendLists(IF env.swap THEN Reverse(sources) ELSE sources, expandWildcards, env)

\* one loadTask of preParseRuleLists: every source is loaded by a goroutine
\* of its own and appended under mu, in the order the goroutines get there
loadTask(sources, expandWildcards, env) ==
  appendLists(IF env.swap THEN Reverse(sources) ELSE sources, expandWildcards, env)

\* yaml.Unmarshal(content, &externalRule) into a RuleBaseConfig: the keys the
\* struct has fields for; RuleBaseConfig has none for "not"
Unmarshal(doc) ==
  [Name |-> doc.name, Ips |-> << >>, Hosts |-> doc.hosts, URLs |-> << >>,
   ExternalIps |-> << >>, ExternalHosts |-> doc.externalHosts,
   ExternalURLs |-> << >>, ExternalRule |-> ""]

\* loadExternalRuleFile: (&RuleBaseConfig{}, nil) for an empty source,
\* (nil, err) when the document cannot be loaded or is not YAML, the decoded
\* document otherwise; nil tells that the pointer returned is nil
loadExternalRuleFile(source, env) ==
  IF source = "" THEN [nil |-> FALSE, rule |-> EmptyRuleBase]
  ELSE IF env.doc.state # "ok" THEN [nil |-> TRUE, rule |-> EmptyRuleBase]
  ELSE [nil |-> FALSE, rule |-> Unmarshal(env.doc)]

\* lines 237-281 of preParseRuleLists for one rule and the externalRule it
\* points to
mergeAndParse(rule, externalRule, env) ==
  [rule EXCEPT
     !.Name = IF rule.Name = "" /\ externalRule.Name # "" THEN externalRule.Name ELSE @,
     !.parsedIps =
        parseStringToList(TrimSpace(rule.Ips \o << "\n" >> \o externalRule.Ips), FALSE)
        \o loadTask(parseStringToList(TrimSpace(rule.ExternalIps \o << "\n" >>
                                                  \o externalRule.ExternalIps), FALSE),
                    FALSE, env),
     !.parsedHosts =
        parseStringToList(TrimSpace(rule.Hosts \o << "\n" >> \o externalRule.Hosts), TRUE)
        \o loadTask(parseStringToList(TrimSpace(rule.ExternalHosts \o << "\n" >>
                                                  \o externalRule.ExternalHosts), FALSE),
                    TRUE, env),
     !.parsedURLs =
        parseStringToList(TrimSpace(rule.URLs \o << "\n" >> \o externalRule.URLs), FALSE)
        \o loadTask(parseStringToList(TrimSpace(rule.ExternalURLs \o << "\n" >>
                                                  \o externalRule.ExternalURLs), FALSE),
                    FALSE, env)]

\* the loop body of preParseRuleLists for one rule: externalRule is replaced
\* by what loadExternalRuleFile returns, the error is logged, and line 237
\* reads externalRule.Ips, which panics on the nil pointer
preParseRule(rule, env) ==
  IF rule.ExternalRule # "" /\ loadExternalRuleFile(rule.ExternalRule, env).nil
    THEN [panicked |-> TRUE, rule |-> rule]
  ELSE [panicked |-> FALSE,
        rule |-> mergeAndParse(rule,
                               IF rule.ExternalRule # ""
                                 THEN loadExternalRuleFile(rule.ExternalRule, env).rule
                               ELSE EmptyRuleBase,
                               env)]

\* preParseRuleLists over c.Rules: the rules in order, up to the first panic
preParseRuleLists(rules, env) ==
  [panicked |-> \E k \in 1..Len(rules) : preParseRule(rules[k], env).panicked,
   rules |-> [k \in 1..Len(rules) |->
                IF \E j \in 1..k : preParseRule(rules[j], env).panicked
                  THEN rules[k]
                ELSE preParseRule(rules[k], env).rule]]

\* the keys of the configuration document that ProxyConfig and RuleConfig
\* carry yaml tags for
ConfigYamlKeys == {"DefaultProxy", "Proxies", "ListenAddr", "LogLevel", "LogFile",
                   "MaxLogSize", "MaxLogFiles", "Rules"}
RuleYamlKeys == {"Name", "Proxy", "Ips", "Hosts", "URLs", "ExternalIps",
                 "ExternalHosts", "ExternalURLs", "ExternalRule", "Not"}

\* the literal LoadConfig starts from
DefaultConfig ==
  [DefaultProxy |-> "direct",
   Proxies |-> [k \in {"socks5", "http", "direct", "block"} |->
                  CASE k = "socks5" -> "socks5://localhost:1080"
                    [] k = "http" -> "http://localhost:8081"
                    [] k = "direct" -> ""
                    [] OTHER -> "#"],
   ListenAddr |-> ":8080",
   LogLevel |-> "info",
   LogFile |-> "goProxy.log",
   MaxLogSize |-> 10,
   MaxLogFiles |-> 5,
   logLevelInt |-> 0,
   Rules |-> <<
     RuleConfig([EmptyRuleBase EXCEPT
                   !.Name = "Local Networks",
                   !.Ips = << "192.168.1.0/24", " ", "10.0.0.0/8", " ", "172.16.0.0/12" >>,
                   !.Hosts = << "localhost", " ", "*", ".", "local", " ",
                                "*", ".", "example.com", " ", "internal.company.com" >>,
                   !.URLs = << "http:", "/", "/", "internal-api.company.com/v1/", "*", " ",
                               "https:", "/", "/", "*", ".", "internal.com/api/", "*" >>],
                "direct", FALSE),
     RuleConfig([EmptyRuleBase EXCEPT
                   !.Name = "Inverted Proxy Rule",
                   !.Hosts = << "*", ".", "google.com", " ", "*", ".", "youtube.com" >>],
                "socks5", TRUE),
     RuleConfig([EmptyRuleBase EXCEPT
                   !.Name = "External Domains",
                   !.Hosts = << "*", ".", "external.com", " ", "api.", "*", ".", "com" >>],
                "http", FALSE),
     RuleConfig([EmptyRuleBase EXCEPT
                   !.Name = "Blocked Domains",
                   !.Hosts = << "*", ".", "malicious.com", " ", "*", ".", "spam.com" >>],
                "block", FALSE) >>]

parseLogLevel(level) ==
  CASE level = "debug" -> 4
    [] level = "info" -> 3
    [] level = "warn" -> 2
    [] level = "error" -> 1
    [] level = "none" -> 0
    [] OTHER -> 3

\* yaml.NewEncoder(file).Encode(config): the tagged fields, the rules without
\* their parsed lists
Encode(config) ==
  [k \in ConfigYamlKeys |->
     IF k = "Rules"
       THEN [j \in 1..Len(config.Rules) |-> [f \in RuleYamlKeys |-> config.Rules[j][f]]]
     ELSE config[k]]

\* yaml.NewDecoder(file).Decode(config) on a filled-in ProxyConfig: a key the
\* document lacks leaves the field as it is, a scalar replaces it, the rules
\* sequence replaces the slice, and the proxies mapping is decoded into the
\* map that is already there, whose other keys stay
Decode(doc, config) ==
  [k \in DOMAIN config |->
     IF k \notin DOMAIN doc THEN config[k]
     ELSE IF k = "Proxies" THEN doc[k] @@ config[k]
     ELSE IF k = "Rules"
       THEN [j \in 1..Len(doc[k]) |->
               doc[k][j] @@ [parsedIps |-> << >>, parsedHosts |-> << >>,
                             parsedURLs |-> << >>]]
     ELSE doc[k]]

\* an environment in which no external source is asked for
NoEnv == [loads |-> [s \in Sources |-> FALSE],
          doc |-> [state |-> "fetchFail", name |-> "", not |-> FALSE,
                   hosts |-> << >>, externalHosts |-> << >>],
          swap |-> FALSE]

\* LoadConfig(configPath) when os.Stat finds no file: saveDefaultConfig, then
\* the literal is returned as it is, with its log level parsed
LoadConfigMissingResult(createOk) ==
  IF ~createOk
    THEN [err |-> "error creating default config file", config |-> DefaultConfig,
          file |-> Encode(DefaultConfig), written |-> FALSE]
  ELSE [err |-> "",
        config |-> [DefaultConfig EXCEPT !.logLevelInt = parseLogLevel(DefaultConfig.LogLevel)],
        file |-> Encode(DefaultConfig), written |-> TRUE]

\* LoadConfig(configPath) on an existing file: Decode onto the literal,
\* parseLogLevel, preParseRuleLists
LoadConfigExistingResult(valid, doc) ==
  IF ~valid
    THEN [err |-> "error parsing config file", config |-> DefaultConfig]
  ELSE [err |-> "",
        config |-> [Decode(doc, DefaultConfig) EXCEPT
                      !.logLevelInt = parseLogLevel(Decode(doc, DefaultConfig).LogLevel),
                      !.Rules = preParseRuleLists(Decode(doc, DefaultConfig).Rules,
                                                  NoEnv).rules]]

\* the rules preParseRuleLists is tried on
RuleInputs ==
  {RuleConfig([EmptyRuleBase EXCEPT !.Name = n, !.Ips = i, !.Hosts = h, !.URLs = u,
                                    !.ExternalIps = xi, !.ExternalHosts = xh,
                                    !.ExternalRule = xr],
              "direct", not) :
     n \in {"", "own"}, not \in BOOLEAN,
     i \in {<< >>, << "10.0.0.0/8" >>},
     h \in {<< >>, << "a.test" >>, << "*", ".", "b.test" >>},
     u \in {<< >>, << "http:", "/", "/", "u.test/p", "#", "f" >>},
     xi \in {<< >>, IpsFile},
     xh \in {<< >>, HostsFile, HostsFile \o << "\n" >> \o HostsURL},
     xr \in {"", "rules/ext.yaml"}}

\* the external rule document: not fetched, not YAML, or a mapping
RuleDocs ==
  {[state |-> s, name |-> "", not |-> FALSE, hosts |-> << >>, externalHosts |-> << >>] :
     s \in {"fetchFail", "badYAML"}}
  \cup [state : {"ok"}, name : {"", "doc"}, not : BOOLEAN, hosts : {<< "d.test" >>},
        externalHosts : {<< >>, HostsURL}]

\* which sources can be read, what the rule document is, and whether the
\* goroutines of a task reach the mutex in the order they were started
RuleEnvs == [loads : [Sources -> BOOLEAN], doc : RuleDocs, swap : BOOLEAN]

\* a rule of a configuration document
DocRule(proxy) ==
  [f \in RuleYamlKeys |->
     CASE f = "Name" -> "r"
       [] f = "Proxy" -> proxy
       [] f = "Hosts" -> << "a.test" >>
       [] f = "Not" -> FALSE
       [] f = "ExternalRule" -> ""
       [] OTHER -> << >>]

\* a document with every key, its proxies being px
FullDoc(px) ==
  [DefaultProxy |-> "mine", Proxies |-> px, ListenAddr |-> ":9090",
   LogLevel |-> "debug", LogFile |-> "x.log", MaxLogSize |-> 1, MaxLogFiles |-> 1,
   Rules |-> << DocRule("mine") >>]

\* the configuration documents LoadConfig is tried on: one naming one proxy,
\* one naming the four keys of the literal too, one with rules only
ConfigDocs ==
  {FullDoc([k \in {"mine"} |-> "http://p:1"]),
   FullDoc([k \in {"mine", "socks5", "http", "direct", "block"} |->
              IF k = "block" THEN "#" ELSE IF k = "direct" THEN "" ELSE "http://p:1"]),
   [Rules |-> << DocRule("direct") >>]}

ParseInputs ==
  {[kind |-> "text", text |-> t, expand |-> e] : t \in Texts, e \in BOOLEAN}
  \cup {[kind |-> "rule", rule |-> r, env |-> v] : r \in RuleInputs, v \in RuleEnvs}
  \cup {[kind |-> "file", exists |-> x, valid |-> ok, createOk |-> c, doc |-> d] :
          x \in BOOLEAN, ok \in BOOLEAN, c \in BOOLEAN, d \in ConfigDocs}

InitParse ==
  /\ InitDispatch
  /\ ClientIdle
  /\ RefreshIdle
  /\ TasksIdle
  /\ TickerIdle
  /\ dnsUp = TRUE
  /\ LoaderIdle
  /\ EvalIdle
  /\ DialIdle
  /\ TunnelIdle
  /\ ShutdownIdle
  /\ prIn \in ParseInputs
  /\ pr = [NoParse EXCEPT !.pc = "start"]

\* parseStringToList on a text
ParseList ==
  /\ prIn.kind = "text"
  /\ pr.pc = "start"
  /\ pr' = [pr EXCEPT !.pc = "done",
                      !.out = parseStringToList(prIn.text, prIn.expand)]
  /\ UNCHANGED prIn
  /\ UNCHANGED besideParse

\* preParseRuleLists on a ruleset of one rule
PreParse ==
  /\ prIn.kind = "rule"
  /\ pr.pc = "start"
  /\ pr' = [pr EXCEPT !.pc = "done",
                      !.out = preParseRuleLists(<< prIn.rule >>, prIn.env)]
  /\ UNCHANGED prIn
  /\ UNCHANGED besideParse

\* LoadConfig on a path where there is no file
LoadConfigMissing ==
  /\ prIn.kind = "file"
  /\ ~prIn.exists
  /\ pr.pc = "start"
  /\ \E r \in {LoadConfigMissingResult(prIn.createOk)} :
       pr' = IF r.err # ""
               THEN [pr EXCEPT !.pc = "failed", !.out = r]
             ELSE [pr EXCEPT !.pc = "first", !.out = r, !.first = r.config,
                             !.file = r.file]
  /\ UNCHANGED prIn
  /\ UNCHANGED besideParse

\* LoadConfig on a path where there is a file: the one that was there, or the
\* one an earlier LoadConfig has written
LoadConfigExisting ==
  /\ prIn.kind = "file"
  /\ \/ prIn.exists /\ pr.pc = "start"
     \/ pr.pc = "first"
  /\ \E r \in {LoadConfigExistingResult(prIn.valid \/ pr.pc = "first",
                                        IF pr.pc = "first" THEN pr.file ELSE prIn.doc)} :
       pr' = [pr EXCEPT !.pc = IF r.err # "" THEN "failed" ELSE "done", !.out = r]
  /\ UNCHANGED prIn
  /\ UNCHANGED besideParse

NextParse ==
  \/ ParseList
  \/ PreParse
  \/ LoadConfigMissing
  \/ LoadConfigExisting

SpecParse == InitParse /\ [][NextParse]_vars

\* the external sources a rule names, by itself or through its rule document
NamedSources(rule, doc) ==
  {s \in Sources :
     \/ \E k \in 1..Len(rule.ExternalHosts) : rule.ExternalHosts[k] = s[1]
     \/ \E k \in 1..Len(rule.ExternalIps) : rule.ExternalIps[k] = s[1]
     \/ /\ rule.ExternalRule # ""
        /\ doc.state = "ok"
        /\ \E k \in 1..Len(doc.externalHosts) : doc.externalHosts[k] = s[1]}

\* the parsed list a source adds to
ParsedListOf(rule, s) == IF s = IpsFile THEN rule.parsedIps ELSE rule.parsedHosts

C23_FailedRuleDocumentKeepsRule ==
  (/\ prIn.kind = "rule"
   /\ pr.pc = "done"
   /\ prIn.rule.ExternalRule # ""
   /\ prIn.env.doc.state # "ok") =>
    /\ ~pr.out.panicked
    /\ SeqRange(parseStringToList(prIn.rule.Hosts, TRUE))
         \subseteq SeqRange(pr.out.rules[1].parsedHosts)
    /\ SeqRange(parseStringToList(prIn.rule.Ips, FALSE))
         \subseteq SeqRange(pr.out.rules[1].parsedIps)
    /\ SeqRange(parseStringToList(prIn.rule.URLs, FALSE))
         \subseteq SeqRange(pr.out.rules[1].parsedURLs)
    /\ \A s \in NamedSources(prIn.rule, prIn.env.doc) :
         prIn.env.loads[s] =>
           SeqRange(parseStringToList(FileContent(s), s # IpsFile))
             \subseteq SeqRange(ParsedListOf(pr.out.rules[1], s))

\* a rule whose document loads has its inline host and the document's host
C23_DocumentLoads ==
  /\ prIn.kind = "rule"
  /\ pr.pc = "done"
  /\ prIn.rule.ExternalRule # ""
  /\ prIn.env.doc.state = "ok"
  /\ prIn.rule.Hosts = << "a.test" >>
  /\ prIn.rule.ExternalHosts = << >>
  /\ prIn.env.doc.externalHosts = << >>
  /\ ~pr.out.panicked
  /\ pr.out.rules[1].parsedHosts = << << "a.test" >>, << "d.test" >> >>

\* C24: loading from a path where no file exists, which persists the default
\* document, returns a ruleset whose rules have the same parsed lists (and so
\* give the same decisions) as the ruleset obtained by then loading the
\* persisted document.
C24_DefaultEqualsPersistedDefault ==
  (/\ prIn.kind = "file"
   /\ ~prIn.exists
   /\ pr.pc = "done") =>
    /\ Len(pr.first.Rules) = Len(pr.out.config.Rules)
    /\ \A k \in 1..Len(pr.first.Rules) :
         /\ pr.first.Rules[k].parsedHosts = pr.out.config.Rules[k].parsedHosts
         /\ pr.first.Rules[k].parsedIps = pr.out.config.Rules[k].parsedIps
         /\ pr.first.Rules[k].parsedURLs = pr.out.config.Rules[k].parsedURLs

\* the persisted default document was loaded: it is the default literal, and
\* its first rule has parsed hosts
C24_PersistedDefaultLoaded ==
  /\ prIn.kind = "file"
  /\ ~prIn.exists
  /\ pr.pc = "done"
  /\ Encode(pr.out.config) = Encode(DefaultConfig)
  /\ pr.out.config.Rules[1].parsedHosts =
       << << "localhost" >>, << "*", ".", "local" >>, << "local" >>,
          << "*", ".", "example.com" >>, << "example.com" >>,
          << "internal.company.com" >> >>

\* C25: the ruleset LoadConfig returns for a document carries exactly the
\* document's proxies map, its rules in the same order and its scalar
\* settings, so that serialising it again yields an equivalent document.
\* Stated for the documents that give every key.
C25_LoadThenEncodeIsDocument ==
  (/\ prIn.kind = "file"
   /\ prIn.exists
   /\ prIn.valid
   /\ pr.pc = "done"
   /\ DOMAIN prIn.doc = ConfigYamlKeys) =>
    /\ pr.out.config.Proxies = prIn.doc.Proxies
    /\ Encode(pr.out.config) = prIn.doc

\* a document that names the four proxies of the default literal as well
\* comes back as it was
C25_DocumentNamingDefaultsRoundTrips ==
  /\ prIn.kind = "file"
  /\ prIn.exists
  /\ prIn.valid
  /\ pr.pc = "done"
  /\ DOMAIN prIn.doc = ConfigYamlKeys
  /\ DOMAIN prIn.doc.Proxies = {"mine", "socks5", "http", "direct", "block"}
  /\ Encode(pr.out.config) = prIn.doc
  /\ pr.out.config.Rules[1].parsedHosts = << << "a.test" >> >>

\* a parsed list without an empty entry; a parsed host list in which every
\* "*.x" comes with its "x"
NoEmptyEntry(list) == \A k \in 1..Len(list) : list[k] # << >>
WildcardsExpanded(list) ==
  \A k \in 1..Len(list) :
    HasWildcardPrefix(list[k]) => SubSeq(list[k], 3, Len(list[k])) \in SeqRange(list)

\* C26: no parsed ips, hosts or urls list contains an empty string, and every
\* parsed host of the form *.x has the bare x in the same rule's parsed host
\* list, for inline hosts, hosts of the rule document and external host lists
\* alike.
C26_ParsedListsWellFormed ==
  /\ (prIn.kind = "text" /\ pr.pc = "done") =>
       /\ NoEmptyEntry(pr.out)
       /\ prIn.expand => WildcardsExpanded(pr.out)
  /\ (prIn.kind = "rule" /\ pr.pc = "done" /\ ~pr.out.panicked) =>
       /\ NoEmptyEntry(pr.out.rules[1].parsedIps)
       /\ NoEmptyEntry(pr.out.rules[1].parsedHosts)
       /\ NoEmptyEntry(pr.out.rules[1].parsedURLs)
       /\ WildcardsExpanded(pr.out.rules[1].parsedHosts)

\* inline "*.b.test" and the "*.x.test" of an external list: both are in
\* the rule's parsed hosts, each followed by its bare domain
C26_WildcardsOfBothSources ==
  /\ prIn.kind = "rule"
  /\ pr.pc = "done"
  /\ ~pr.out.panicked
  /\ prIn.rule.ExternalRule = ""
  /\ pr.out.rules[1].parsedHosts =
       << << "*", ".", "b.test" >>, << "b.test" >>,
          << "*", ".", "x.test" >>, << "x.test" >> >>

\* a line whose first characters that are not blanks are "#" or "//"
IsCommentLine(line) ==
  \/ (TrimSpace(line) # << >> /\ TrimSpace(line)[1] = "#")
  \/ (Len(TrimSpace(line)) >= 2 /\ TrimSpace(line)[1] = "/" /\ TrimSpace(line)[2] = "/")

\* the lines of a text that are not comment lines, unchanged
KeptLines(t) == SelectSeq(Split(t), LAMBDA line : ~IsCommentLine(line))

C28_NameAdoptedNegateOred ==
  (/\ prIn.kind = "rule"
   /\ pr.pc = "done"
   /\ prIn.rule.ExternalRule # ""
   /\ prIn.env.doc.state = "ok") =>
    /\ ~pr.out.panicked
    /\ pr.out.rules[1].Name = IF prIn.rule.Name = "" THEN prIn.env.doc.name
                              ELSE prIn.rule.Name
    /\ pr.out.rules[1].Not = (prIn.rule.Not \/ prIn.env.doc.not)

\* a rule without a name has taken the name of its document
C28_NameAdopted ==
  /\ prIn.kind = "rule"
  /\ pr.pc = "done"
  /\ prIn.rule.ExternalRule # ""
  /\ prIn.env.doc.state = "ok"
  /\ prIn.rule.Name = ""
  /\ prIn.env.doc.name = "doc"
  /\ ~pr.out.panicked
  /\ pr.out.rules[1].Name = "doc"

\* the first category, in the order urls, hosts, ips, in which a rule has a
\* pattern that matches the chosen input
EvUrlMatches(rule) ==
  \E j \in 1..Len(rule.parsedURLs) : matchesURLPattern(rule.parsedURLs[j], evIn.url)
EvHostMatches(rule) ==
  \E j \in 1..Len(rule.parsedHosts) : matchesGlob(rule.parsedHosts[j], evIn.host)
EvFirstCategory(rule) ==
  IF EvUrlMatches(rule) THEN "url" ELSE IF EvHostMatches(rule) THEN "host" ELSE "ip"

\* C29: every decision has a match type among url, host, ip and default; a
\* rule that fires because a pattern matched reports the first matching
\* category in the order urls, hosts, ips; a rule that fires only through its
\* negation reports "host".
C29_MatchTypeNamesCategory ==
  evPc = "done" =>
    /\ evOut.MatchType \in {"url", "host", "ip", "default"}
    /\ EvFiring = {} => evOut.MatchType = "default"
    /\ EvFiring # {} =>
         evOut.MatchType = IF evIn.rules[EvFirst].Not THEN "host"
                           ELSE EvFirstCategory(evIn.rules[EvFirst])

\* a rule whose url pattern and whose host pattern both match the request
\* fires and reports "url"
C29_UrlBeforeHost ==
  /\ evPc = "done"
  /\ EvFiring # {}
  /\ ~evIn.rules[EvFirst].Not
  /\ EvUrlMatches(evIn.rules[EvFirst])
  /\ EvHostMatches(evIn.rules[EvFirst])
  /\ evOut.MatchType = "url"

\* C30: a freshly evaluated decision is inserted into exactly one decision
\* cache: the URL cache for a url match, the IP cache for an ip match, the
\* host cache otherwise (default and negation-fired results included); a
\* decision served from a cache causes no insertion.
C30_FreshDecisionInOneCache ==
  [][\A i \in Slots :
       (req[i].pc = "snap" /\ req'[i].pc = "decided") =>
         IF req'[i].via # "miss"
           THEN urlCache' = urlCache /\ hostCache' = hostCache /\ ipCache' = ipCache
         ELSE IF req'[i].decision.MatchType = "url"
           THEN /\ urlCache' = [urlCache EXCEPT ![Requests[req[i].r].url] =
                                  Entry(req'[i].decision, decisionConfig)]
                /\ urlCache' # urlCache
                /\ hostCache' = hostCache /\ ipCache' = ipCache
         ELSE IF req'[i].decision.MatchType = "ip"
           THEN /\ ipCache' = [ipCache EXCEPT ![Requests[req[i].r].host] =
                                 Entry(req'[i].decision, decisionConfig)]
                /\ ipCache' # ipCache
                /\ urlCache' = urlCache /\ hostCache' = hostCache
         ELSE /\ hostCache' = [hostCache EXCEPT ![Requests[req[i].r].host] =
                                 Entry(req'[i].decision, decisionConfig)]
              /\ hostCache' # hostCache
              /\ urlCache' = urlCache /\ ipCache' = ipCache]_vars

\* a request decided by evaluation with a url match: its URL is in the URL
\* cache and its host is in neither of the other two caches
C30_Witness ==
  \E i \in Slots :
    /\ req[i].pc = "decided"
    /\ req[i].via = "miss"
    /\ req[i].decision.MatchType = "url"
    /\ urlCache[Requests[req[i].r].url] = Entry(req[i].decision, decisionConfig)
    /\ hostCache[Requests[req[i].r].host] = NoEntry
    /\ ipCache[Requests[req[i].r].host] = NoEntry

\* C31: the listener is stopped only in response to SIGINT or SIGTERM, a tray
\* quit signal, or a change of the listen address: without such a trigger
\* main never goes on to close the server.  No reload of this specification
\* changes the address, so here a stopped listener needs a signal or a quit.
C31_ListenerStoppedOnlyOnTrigger ==
  sd.listener = "closed" => sd.owed

\* the tray's quit item was clicked on a build with a tray and no signal was
\* sent: the listener is stopped and the process has exited
C31_StoppedAfterTrayQuit ==
  /\ sd.build = "other"
  /\ sd.signals = 0
  /\ sd.systrayQuit
  /\ sd.owed
  /\ sd.listener = "closed"
  /\ sd.mainPc = "exited"


\* C32: the dispatcher never holds ProxyHandler.mu while it performs I/O: no
\* step of a handler that holds the read lock (it has taken its snapshot and
\* not yet returned from GetProxyForRequest) asks the platform resolver for a
\* name, which would show as a new answer in the DNS cache.
C32_NoLookupUnderReadLock ==
  [][\A i \in Slots : req[i].pc = "snap" => dnsCache' \subseteq dnsCache]_vars

\* a handler has just left the locked section with a freshly evaluated
\* decision and the answer for its host is in the DNS cache
C32_ResolvedWhileDeciding ==
  \E i \in Slots :
    /\ req[i].pc = "decided"
    /\ req[i].via = "miss"
    /\ Requests[req[i].r].host \in dnsCache


MaxTicks == 2

\* reloads the event loop performs on SIGHUP or from the tray
MaxTickerReloads == 2

\* the values of auto_reload_hours the configuration file takes
HoursValues == {0, 1, 2}

\* time.NewTicker: running, nothing in its channel C (capacity 1)
NewTicker(hours) == [period |-> hours, stopped |-> FALSE, C |-> 0]

\* startTicker(hours) on the state t: the ticker reloadTicker points at is
\* stopped (its channel is not closed and keeps a tick it holds); for
\* hours > 0 a new ticker is assigned to reloadTicker and a goroutine is
\* started that will range over reloadTicker.C; otherwise reloadTicker = nil
startTickerOn(t, hours) ==
  LET old == IF t.reloadTicker # 0
             THEN [t.tickers EXCEPT ![t.reloadTicker].stopped = TRUE]
             ELSE t.tickers
  IN IF hours > 0
       THEN [t EXCEPT !.tickers = Append(old, NewTicker(hours)),
                      !.reloadTicker = Len(old) + 1,
                      !.fwd = Append(t.fwd, [own |-> Len(old) + 1, src |-> -1, holding |-> FALSE])]
     ELSE [t EXCEPT !.tickers = old, !.reloadTicker = 0]

\* main once the event loop goroutine is started and before
\* startTicker(currentConfig.AutoReloadHours) is called
InitTicker ==
  /\ InitDispatch
  /\ ClientIdle
  /\ RefreshIdle
  /\ TasksIdle
  /\ dnsUp = TRUE
  /\ LoaderIdle
  /\ EvalIdle
  /\ DialIdle
  /\ TunnelIdle
  /\ ShutdownIdle
  /\ ParseIdle
  /\ \E h \in HoursValues :
       tk = [pc |-> "on", mainPc |-> "start", hours |-> h, reloadTicker |-> 0,
             tickers |-> << >>, fwd |-> << >>, loopPc |-> "select", trigger |-> "none",
             ticks |-> 0, reloadsDone |-> 0, panicked |-> FALSE]

\* main: startTicker(currentConfig.AutoReloadHours)
TickerMainStart ==
  /\ ~tk.panicked
  /\ tk.mainPc = "start"
  /\ tk' = [startTickerOn(tk, tk.hours) EXCEPT !.mainPc = "running"]
  /\ UNCHANGED besideTicker

\* the period of ticker k elapses: the runtime puts the time in C unless C
\* is full, then the tick is dropped
TickerFire(k) ==
  /\ ~tk.panicked
  /\ tk.ticks < MaxTicks
  /\ ~tk.tickers[k].stopped
  /\ tk' = [tk EXCEPT !.tickers[k].C = 1, !.ticks = @ + 1]
  /\ UNCHANGED besideTicker

\* the goroutine of startTicker begins its loop: range reloadTicker.C reads
\* the captured variable reloadTicker, which startTicker may have assigned
\* again in the meantime without synchronisation; it gets the ticker it was
\* started for or the present value, and a nil ticker panics
ForwarderBegin(g, k) ==
  /\ ~tk.panicked
  /\ tk.fwd[g].src = -1
  /\ k \in {tk.fwd[g].own, tk.reloadTicker}
  /\ tk' = IF k = 0 THEN [tk EXCEPT !.panicked = TRUE]
           ELSE [tk EXCEPT !.fwd[g].src = k]
  /\ UNCHANGED besideTicker

\* the goroutine receives a tick from the channel it ranges over and goes on
\* to send it on reloadTickerChan
ForwarderReceive(g) ==
  /\ ~tk.panicked
  /\ tk.fwd[g].src >= 1
  /\ ~tk.fwd[g].holding
  /\ tk.tickers[tk.fwd[g].src].C = 1
  /\ tk' = [tk EXCEPT !.tickers[tk.fwd[g].src].C = 0, !.fwd[g].holding = TRUE]
  /\ UNCHANGED besideTicker

\* the event loop's select takes the tick goroutine g sends on the unbuffered
\* reloadTickerChan: reloadConfiguration("Periodic update")
LoopPeriodic(g) ==
  /\ ~tk.panicked
  /\ tk.loopPc = "select"
  /\ tk.fwd[g].holding
  /\ tk' = [tk EXCEPT !.fwd[g].holding = FALSE, !.loopPc = "reloading",
                      !.trigger = "Periodic update"]
  /\ UNCHANGED besideTicker

\* the event loop's select takes SIGHUP or the tray's reload item
LoopOtherReload(t) ==
  /\ ~tk.panicked
  /\ tk.loopPc = "select"
  /\ tk.reloadsDone < MaxTickerReloads
  /\ tk' = [tk EXCEPT !.loopPc = "reloading", !.trigger = t, !.reloadsDone = @ + 1]
  /\ UNCHANGED besideTicker

\* reloadConfiguration: ReloadConfig returns an error
TickerReloadFail ==
  /\ ~tk.panicked
  /\ tk.loopPc = "reloading"
  /\ tk' = [tk EXCEPT !.loopPc = "select", !.trigger = "none"]
  /\ UNCHANGED besideTicker

\* reloadConfiguration: ReloadConfig returns a configuration with
\* auto_reload_hours h; startTicker(h) when h differs from the live value,
\* then currentConfig = newConfig
TickerReloadOk(h) ==
  /\ ~tk.panicked
  /\ tk.loopPc = "reloading"
  /\ tk' = [(IF h # tk.hours THEN startTickerOn(tk, h) ELSE tk)
              EXCEPT !.hours = h, !.loopPc = "select", !.trigger = "none"]
  /\ UNCHANGED besideTicker

NextTicker ==
  \/ TickerMainStart
  \/ \E k \in 1..Len(tk.tickers) : TickerFire(k)
  \/ \E g \in 1..Len(tk.fwd) : \E k \in 0..Len(tk.tickers) : ForwarderBegin(g, k)
  \/ \E g \in 1..Len(tk.fwd) : ForwarderReceive(g)
  \/ \E g \in 1..Len(tk.fwd) : LoopPeriodic(g)
  \/ \E t \in {"Received SIGHUP signal", "Manual reload from tray"} : LoopOtherReload(t)
  \/ TickerReloadFail
  \/ \E h \in HoursValues : TickerReloadOk(h)

SpecTicker == InitTicker /\ [][NextTicker]_vars

\* C34: periodic reloads happen only while the live auto_reload_hours is
\* greater than 0: whenever reloadConfiguration runs with the trigger
\* "Periodic update", the live configuration's auto_reload_hours is positive.
C34_PeriodicOnlyWhileEnabled ==
  (tk.pc = "on" /\ tk.loopPc = "reloading" /\ tk.trigger = "Periodic update")
    => tk.hours > 0

\* main has long started its ticker, a reload set auto_reload_hours to 0 and
\* stopped the ticker, no goroutine panicked, and the event loop is in a
\* reload with the trigger "Periodic update"
C34_PeriodicReloadAfterZero ==
  /\ tk.pc = "on"
  /\ tk.mainPc = "running"
  /\ ~tk.panicked
  /\ tk.hours = 0
  /\ tk.reloadTicker = 0
  /\ \A k \in 1..Len(tk.tickers) : tk.tickers[k].stopped
  /\ tk.loopPc = "reloading"
  /\ tk.trigger = "Periodic update"


\* ---------------------------------------------------------------------------
\* preParseRuleLists, one rule: the goroutines that load the external lists,
\* the mutex they append under and the WaitGroup the loop waits on
\* ---------------------------------------------------------------------------

\* the rules whose external lists are loaded: no rule document
TaskRules ==
  {RuleConfig([EmptyRuleBase EXCEPT !.Name = "own", !.Ips = i, !.Hosts = h,
                                    !.ExternalIps = xi, !.ExternalHosts = xh],
              "direct", FALSE) :
     i \in {<< >>, << "10.0.0.0/8" >>},
     h \in {<< >>, << "a.test" >>},
     xi \in {<< >>, IpsFile},
     xh \in {<< >>, HostsFile, HostsFile \o << "\n" >> \o HostsURL}}

\* the three tasks of lines 247-251: the sources named, whether wildcard
\* domains are expanded, and the result slice appended to
tasks(rule) ==
  << [sources |-> parseStringToList(TrimSpace(rule.ExternalIps \o << "\n" >>), FALSE),
      expandWildcards |-> FALSE, result |-> "parsedIps"],
     [sources |-> parseStringToList(TrimSpace(rule.ExternalHosts \o << "\n" >>), FALSE),
      expandWildcards |-> TRUE, result |-> "parsedHosts"],
     [sources |-> parseStringToList(TrimSpace(rule.ExternalURLs \o << "\n" >>), FALSE),
      expandWildcards |-> FALSE, result |-> "parsedURLs"] >>

\* the goroutines the loop of lines 256-271 starts for one task
goroutinesOf(task) ==
  [k \in 1..Len(task.sources) |->
     [source |-> task.sources[k], expandWildcards |-> task.expandWildcards,
      result |-> task.result, pc |-> "load", rules |-> << >>, seen |-> << >>]]

\* variant: the goroutines append without taking mu
MutexIgnored(mu) == TRUE

\* sync.Mutex.Lock returns only when no goroutine holds mu
MutexFree(mu) == mu = 0

\* the loop body up to wg.Wait() for one rule: the inline lists are parsed
\* into the three slices and a goroutine is started for every source
InitTasks ==
  /\ InitDispatch
  /\ ClientIdle
  /\ RefreshIdle
  /\ dnsUp = TRUE
  /\ LoaderIdle
  /\ EvalIdle
  /\ DialIdle
  /\ TunnelIdle
  /\ ShutdownIdle
  /\ ParseIdle
  /\ TickerIdle
  /\ \E rule \in TaskRules, readable \in [Sources -> BOOLEAN] :
       lt = [pc |-> "on", rule |-> rule, env |-> [loads |-> readable],
             g |-> goroutinesOf(tasks(rule)[1]) \o goroutinesOf(tasks(rule)[2])
                     \o goroutinesOf(tasks(rule)[3]),
             mu |-> 0,
             wg |-> Len(tasks(rule)[1].sources) + Len(tasks(rule)[2].sources)
                      + Len(tasks(rule)[3].sources),
             result |-> [parsedIps |-> parseStringToList(TrimSpace(rule.Ips \o << "\n" >>), FALSE),
                         parsedHosts |-> parseStringToList(TrimSpace(rule.Hosts \o << "\n" >>), TRUE),
                         parsedURLs |-> parseStringToList(TrimSpace(rule.URLs \o << "\n" >>), FALSE)],
             mainPc |-> "wait"]

\* goroutine n: rules := c.loadExternalRuleList(source, expandWildcards, ...)
TaskLoad(n) ==
  /\ lt.g[n].pc = "load"
  /\ lt' = [lt EXCEPT !.g[n].pc = "lock",
                      !.g[n].rules = loadExternalRuleList(lt.g[n].source,
                                                          lt.g[n].expandWildcards, lt.env)]
  /\ UNCHANGED besideTasks

\* goroutine n: mu.Lock()
TaskLock(n) ==
  /\ lt.g[n].pc = "lock"
  /\ MutexFree(lt.mu)
  /\ lt' = [lt EXCEPT !.g[n].pc = "read", !.mu = n]
  /\ UNCHANGED besideTasks

\* goroutine n: *result is read for append(*result, rules...)
TaskRead(n) ==
  /\ lt.g[n].pc = "read"
  /\ lt' = [lt EXCEPT !.g[n].pc = "write", !.g[n].seen = lt.result[lt.g[n].result]]
  /\ UNCHANGED besideTasks

\* goroutine n: the appended slice is stored in *result
TaskWrite(n) ==
  /\ lt.g[n].pc = "write"
  /\ lt' = [lt EXCEPT !.g[n].pc = "unlock",
                      !.result[lt.g[n].result] = lt.g[n].seen \o lt.g[n].rules]
  /\ UNCHANGED besideTasks

\* goroutine n: mu.Unlock(), then the deferred wg.Done()
TaskUnlock(n) ==
  /\ lt.g[n].pc = "unlock"
  /\ lt' = [lt EXCEPT !.g[n].pc = "done", !.mu = 0, !.wg = @ - 1]
  /\ UNCHANGED besideTasks

\* wg.Wait() returns and the three slices are assigned to the rule
TaskPublish ==
  /\ lt.mainPc = "wait"
  /\ lt.wg = 0
  /\ lt' = [lt EXCEPT !.mainPc = "published",
                      !.rule = [@ EXCEPT !.parsedIps = lt.result.parsedIps,
                                         !.parsedHosts = lt.result.parsedHosts,
                                         !.parsedURLs = lt.result.parsedURLs]]
  /\ UNCHANGED besideTasks

NextTasks ==
  \/ \E n \in 1..Len(lt.g) : TaskLoad(n)
  \/ \E n \in 1..Len(lt.g) : TaskLock(n)
  \/ \E n \in 1..Len(lt.g) : TaskRead(n)
  \/ \E n \in 1..Len(lt.g) : TaskWrite(n)
  \/ \E n \in 1..Len(lt.g) : TaskUnlock(n)
  \/ TaskPublish

SpecTasks == InitTasks /\ [][NextTasks]_vars

\* how often each entry occurs in a list
SeqBag(s) == [x \in SeqRange(s) |-> Cardinality({k \in 1..Len(s) : s[k] = x})]

\* the inline patterns of a category followed by the patterns of its sources
\* that loaded, source by source
ExpectedList(rule, inline, expandWildcards, sources, env) ==
  parseStringToList(TrimSpace(inline \o << "\n" >>), expandWildcards)
    \o appendLists(parseStringToList(TrimSpace(sources \o << "\n" >>), FALSE),
                   expandWildcards, env)

\* C35: for every interleaving of the loading goroutines, the lists published
\* for a rule hold, entry for entry and as often, the inline patterns and the
\* patterns of every source that loaded, each in its own category; the lists
\* are untouched until every goroutine is done.
C35_PublishedListsComplete ==
  lt.pc = "on" =>
    /\ lt.mainPc = "published" =>
         /\ \A n \in 1..Len(lt.g) : lt.g[n].pc = "done"
         /\ SeqBag(lt.rule.parsedIps)
              = SeqBag(ExpectedList(lt.rule, lt.rule.Ips, FALSE, lt.rule.ExternalIps, lt.env))
         /\ SeqBag(lt.rule.parsedHosts)
              = SeqBag(ExpectedList(lt.rule, lt.rule.Hosts, TRUE, lt.rule.ExternalHosts, lt.env))
         /\ SeqBag(lt.rule.parsedURLs)
              = SeqBag(ExpectedList(lt.rule, lt.rule.URLs, FALSE, lt.rule.ExternalURLs, lt.env))
    /\ lt.mainPc = "wait" =>
         /\ lt.rule.parsedIps = << >>
         /\ lt.rule.parsedHosts = << >>
         /\ lt.rule.parsedURLs = << >>

\* a rule with an inline host, two host lists and an address list, all of
\* which loaded, is published; the goroutine of the second host list appended
\* before that of the first
C35_SecondSourceAppendedFirst ==
  /\ lt.pc = "on"
  /\ lt.mainPc = "published"
  /\ Len(lt.g) = 3
  /\ lt.rule.parsedHosts
       = << << "a.test" >>, << "y.test" >>, << "*", ".", "x.test" >>, << "x.test" >> >>
  /\ lt.rule.parsedIps = << << "10.0.0.0/8" >>, << "1.1.1.1" >> >>


\* ---------------------------------------------------------------------------
\* ConfigManager: GetConfig, RefreshExternalRules and ReloadConfig on the
\* ProxyConfig objects they hand out, and a handler that evaluates the rules
\* of the configuration it obtained
\* ---------------------------------------------------------------------------

\* rules of the configuration file
RefreshRules == 2

\* times RefreshExternalRules is called, and times ReloadConfig is
MaxRefreshes == 2
MaxRefreshReloads == 1

\* versions the lists at the external sources go through
MaxRemoteVersions == 3

\* a ProxyConfig object whose rules all carry the lists loaded as version v
ConfigObject(v) == [rules |-> [k \in 1..RefreshRules |-> v]]

\* NewConfigManager: cm.config points at the configuration loaded at startup
InitRefresh ==
  /\ InitDispatch
  /\ ClientIdle
  /\ dnsUp = TRUE
  /\ LoaderIdle
  /\ EvalIdle
  /\ DialIdle
  /\ TunnelIdle
  /\ ShutdownIdle
  /\ ParseIdle
  /\ TickerIdle
  /\ TasksIdle
  /\ rf = [pc |-> "on", heap |-> << ConfigObject(1) >>, config |-> 1, mu |-> "free",
           at |-> 0, remote |-> 1, refreshes |-> 0, reloads |-> 0,
           h |-> [pc |-> "idle", config |-> 0, copy |-> ConfigObject(0), k |-> 0,
                  seen |-> << >>]]

\* the lists published at the external sources change
RefreshRemoteChange ==
  /\ rf.remote < MaxRemoteVersions
  /\ rf' = [rf EXCEPT !.remote = @ + 1]
  /\ UNCHANGED besideRefresh

\* a handler calls GetConfig: under cm.mu.RLock the pointer cm.config is
\* returned; copy records what the object held at that moment
GetConfig ==
  /\ rf.h.pc = "idle"
  /\ rf.mu = "free"
  /\ rf' = [rf EXCEPT !.h = [pc |-> "evaluating", config |-> rf.config,
                             copy |-> rf.heap[rf.config], k |-> 1, seen |-> << >>]]
  /\ UNCHANGED besideRefresh

\* evaluateRules, one iteration: rule.GetParsedURLs/Ips/Hosts of rule k are
\* read through the pointer
EvaluateRule ==
  /\ rf.h.pc = "evaluating"
  /\ rf' = [rf EXCEPT !.h.seen = Append(@, rf.heap[rf.h.config].rules[rf.h.k]),
                      !.h.k = @ + 1,
                      !.h.pc = IF rf.h.k = RefreshRules THEN "decided" ELSE @]
  /\ UNCHANGED besideRefresh

\* the handler returns
HandlerDone ==
  /\ rf.h.pc = "decided"
  /\ rf' = [rf EXCEPT !.h = [pc |-> "idle", config |-> 0, copy |-> ConfigObject(0),
                             k |-> 0, seen |-> << >>]]
  /\ UNCHANGED besideRefresh

\* ConfigManager.RefreshExternalRules: cm.mu.Lock()
RefreshExternalRulesLock ==
  /\ rf.mu = "free"
  /\ rf.refreshes < MaxRefreshes
  /\ rf' = [rf EXCEPT !.mu = "refresh", !.at = 1, !.refreshes = @ + 1]
  /\ UNCHANGED besideRefresh

\* cm.config.RefreshExternalRules, one iteration of preParseRuleLists over
\* c.Rules: rule := &c.Rules[i], the lists are loaded from the network and
\* assigned to the rule of the object cm.config points at
RefreshExternalRulesRule ==
  /\ rf.mu = "refresh"
  /\ rf.at <= RefreshRules
  /\ rf' = [rf EXCEPT !.heap[rf.config].rules[rf.at] = rf.remote, !.at = @ + 1]
  /\ UNCHANGED besideRefresh

\* ConfigManager.RefreshExternalRules returns: the deferred cm.mu.Unlock()
RefreshExternalRulesUnlock ==
  /\ rf.mu = "refresh"
  /\ rf.at > RefreshRules
  /\ rf' = [rf EXCEPT !.mu = "free", !.at = 0]
  /\ UNCHANGED besideRefresh

\* ConfigManager.ReloadConfig: under cm.mu.Lock() LoadConfig builds a new
\* object from the file and the network and cm.config is pointed at it
RefreshReloadConfig ==
  /\ rf.mu = "free"
  /\ rf.reloads < MaxRefreshReloads
  /\ rf' = [rf EXCEPT !.heap = Append(@, ConfigObject(rf.remote)),
                      !.config = Len(rf.heap) + 1, !.reloads = @ + 1]
  /\ UNCHANGED besideRefresh

NextRefresh ==
  \/ RefreshRemoteChange
  \/ GetConfig
  \/ EvaluateRule
  \/ HandlerDone
  \/ RefreshExternalRulesLock
  \/ RefreshExternalRulesRule
  \/ RefreshExternalRulesUnlock
  \/ RefreshReloadConfig

SpecRefresh == InitRefresh /\ [][NextRefresh]_vars

\* C36: the configuration GetConfig returned is a stable snapshot: while a
\* handler evaluates it the object holds what it held when it was obtained,
\* and the lists the handler has read for its rules are all of one load.
C36_GetConfigIsStableSnapshot ==
  (rf.pc = "on" /\ rf.h.pc \in {"evaluating", "decided"}) =>
    /\ rf.heap[rf.h.config] = rf.h.copy
    /\ \A a, b \in 1..Len(rf.h.seen) : rf.h.seen[a] = rf.h.seen[b]

\* a handler has decided after reading the lists of the startup load for the
\* first rule and refreshed lists for the second, with no reload in between
C36_MixedRulesetObserved ==
  /\ rf.pc = "on"
  /\ rf.reloads = 0
  /\ rf.h.pc = "decided"
  /\ rf.h.seen[1] = 1
  /\ rf.h.seen[Len(rf.h.seen)] = 2


\* the decision for (host, fullURL) on ruleset c is settled by what the
\* resolver answers: it differs between a resolver that answers and one that
\* fails
DependsOnResolution(c, host, fullURL) ==
  evaluateRules(c, host, fullURL, {}, {}, TRUE).res
    # evaluateRules(c, host, fullURL, {}, {}, FALSE).res

\* C37: a decision that depended on resolving the host goes to the ip
\* decision cache, whose entries live for IPResolutionTTL, and never to a
\* cache without expiry: when a freshly evaluated decision is settled by the
\* resolver's answer, the host decision cache holds no entry for the host.
C37_ResolutionDependentNotInHostCache ==
  \A i \in Slots :
    (/\ req[i].pc = "decided"
     /\ req[i].via = "miss"
     /\ DependsOnResolution(req[i].decidedBy, Requests[req[i].r].host, Requests[req[i].r].url))
      => hostCache[Requests[req[i].r].host] = NoEntry

\* the resolver answers again, yet a request is decided from the host
\* decision cache with the default recorded while the resolver failed, where
\* evaluating the rules now matches an ip pattern
C37_StaleDefaultServed ==
  \E i \in Slots :
    /\ req[i].pc = "decided"
    /\ req[i].via = "host"
    /\ dnsUp
    /\ req[i].decision.MatchType = "default"
    /\ req[i].expected.MatchType = "ip"


\* ---------------------------------------------------------------------------
\* GetHTTPClient: the HTTP client an external rule list is fetched with
\* ---------------------------------------------------------------------------

\* the upstreams maps: any of the keys the evaluated rulesets name may be
\* missing
ClientProxyMaps ==
  {[k \in keys |-> CASE k = "p1" -> "http://up:3128"
                     [] k = "p2" -> "#"
                     [] OTHER -> ""] :
     keys \in SUBSET {"p1", "p2", EvalDefault}}

\* ProxyDecision.GetProxyForURL: the decision for the URL and
\* d.config.Proxies[decision.Proxy], the empty string when the key is absent
GetProxyForURL(rules, proxies, host, fullURL, up) ==
  LET decision == EvalRulesFrom(rules, EvalDefault, 1, host, fullURL, {}, {}, up).res
  IN [decision |-> decision,
      proxyURL |-> IF decision.Proxy \in DOMAIN proxies THEN proxies[decision.Proxy] ELSE ""]

\* ProxyHandler.GetHTTPClient once proxyURL := config.Proxies[decisionResult.Proxy]
\* is read: an error for "#", a client without a transport of its own for
\* "", a client that dials through dialContext otherwise
clientFor(proxyURL) ==
  IF proxyURL = "#"
    THEN [err |-> "request blocked by proxy configuration", transport |-> "none"]
  ELSE IF proxyURL = ""
    THEN [err |-> "", transport |-> "direct"]
  ELSE [err |-> "", transport |-> "proxy"]

\* a ruleset, its upstreams map, the URL of an external list and the resolver
\* state are chosen
InitClient ==
  /\ InitDispatch
  /\ dnsUp = TRUE
  /\ LoaderIdle
  /\ EvalIdle
  /\ DialIdle
  /\ TunnelIdle
  /\ ShutdownIdle
  /\ ParseIdle
  /\ TickerIdle
  /\ TasksIdle
  /\ RefreshIdle
  /\ \E rules \in EvalRulesets, proxies \in ClientProxyMaps, r \in EvalRequests,
        up \in BOOLEAN :
       hc = [pc |-> "on", rules |-> rules, proxies |-> proxies, host |-> r.host,
             url |-> r.url, up |-> up, at |-> "input",
             decision |-> NoResult, err |-> "", transport |-> "none"]

\* p.GetHTTPClient(targetURL, config)
GetHTTPClient ==
  /\ hc.at = "input"
  /\ \E d \in {GetProxyForURL(hc.rules, hc.proxies, hc.host, hc.url, hc.up)} :
       hc' = [hc EXCEPT !.at = "done", !.decision = d.decision,
                        !.err = clientFor(d.proxyURL).err,
                        !.transport = clientFor(d.proxyURL).transport]
  /\ UNCHANGED besideClient

NextClient == GetHTTPClient

SpecClient == InitClient /\ [][NextClient]_vars

\* C38: when the decision for the URL of an external rule list names a key
\* that is absent from the upstreams map, GetHTTPClient returns an error and
\* the fetch fails; it is never made directly.
C38_UnknownKeyFailsFetch ==
  (hc.pc = "on" /\ hc.at = "done" /\ hc.decision.Proxy \notin DOMAIN hc.proxies)
    => (hc.err # "" /\ hc.transport = "none")

\* a rule matched the list's URL, its key is not in the upstreams map, and
\* GetHTTPClient returned a client that connects directly, without an error
C38_UnknownKeyFetchedDirectly ==
  /\ hc.pc = "on"
  /\ hc.at = "done"
  /\ hc.decision.MatchType = "url"
  /\ hc.decision.Proxy \notin DOMAIN hc.proxies
  /\ hc.err = ""
  /\ hc.transport = "direct"


\* C39: a download that fails or is cut short never truncates or alters a
\* cache file that existed before it: after a fetch that returned an error
\* for a source with a cache file, the file holds what it held before.
C39_FailedFetchKeepsCacheFile ==
  (lastFetch.url \in ExtURLs /\ lastFetch.err /\ lastFetch.hadCache)
    => cacheFile[lastFetch.url] = lastFetch.before

\* the body of a source with a complete cache file was cut short while it was
\* copied: the fetch returned an error and the cache file holds the part
\* that was written
C39_CacheFileTruncated ==
  /\ lastFetch.url \in ExtURLs
  /\ lastFetch.outcome = "copyErr"
  /\ lastFetch.err
  /\ lastFetch.before = "v1"
  /\ cacheFile[lastFetch.url] = "partial"


\* C40: at most one http.Server instance listens, the listening instance is
\* the current one and is bound to the current listen address, and every
\* instance has ListenAndServe started at most once: the goroutine of main
\* starts the instance main created, never an instance made by a restart,
\* which the goroutine of that restart starts.
C40_OneListenerStartedOnce ==
  [][/\ Cardinality({s \in 1..Len(servers') : servers'[s].state = "listening"}) <= 1
     /\ \A s \in 1..Len(servers') :
          servers'[s].state = "listening" =>
            (s = currentServer' /\ servers'[s].addr = currentListenAddr')
     /\ (~initialStarted /\ initialStarted') => currentServer = 1]_vars

\* a reload changed the address before the goroutine of main ran: that
\* goroutine started the new instance, which listens, and the goroutine of
\* the restart, starting the same instance again, failed to bind and
\* panicked
C40_NewInstanceStartedTwice ==
  /\ initialStarted
  /\ Len(servers) = 2
  /\ currentServer = 2
  /\ servers[1].state = "closed"
  /\ servers[2].state = "listening"
  /\ pendingStart = {}
  /\ crashed
  /\ bindFail = "reload"

====
